---- MODULE Spec2Model ----
(***************************************************************************)
(* A model of the Graph-Generator chart generator: configuration           *)
(* validation, the output namer (slugify + generate_unique_filename), the  *)
(* chart factory and renderers, and the dashboard compose pipeline run by  *)
(* ChartGeneratorApp.generate_chart.                                       *)
(*                                                                         *)
(* Strings are sequences of characters; a character is a one-character     *)
(* string, except the stand-in "U+00E9" for a non-ASCII letter.            *)
(***************************************************************************)
EXTENDS Integers, Sequences, FiniteSets, TLC

VARIABLES
    text,       \* slugify: the input string
    slug,       \* slugify: slugify(text)
    reslug,     \* slugify: slugify(slug)
    spc,        \* slugify: position of the caller ("start", "slugged", "reslugged")
    vcfg,       \* validate_config: the parsed configuration (a dict)
    v,          \* validate_config: [at, i, err], the statement it is at, the loop
                \* index, and the message of the ValueError raised ("" for none)
    vchecks,    \* validate_config: the checks run so far, in order (history)
    gcfg,       \* chart factory: the graph config (a dict) given to create_chart
    cw,         \* chart factory: the requested width
    ch,         \* chart factory: the requested height
    chart,      \* chart factory: what create_chart returned or raised
    fig,        \* renderer: the matplotlib figure of the chart being rendered
    raster,     \* renderer: what render() returned
    cpc,        \* chart factory: position of the caller
    inv,        \* app: the number of invocations of generate_chart started
    pc,         \* app: the last step of generate_chart that completed
    config,     \* app: the configuration load_config returned
    canvas,     \* app: the accumulating raster of render_dashboard
    graph_image,\* app: the chart raster _add_chart pastes
    output_path,\* app: what generate_unique_filename returned
    fs,         \* the files of the filesystem: path -> content
    dirs,       \* the directories that exist
    written,    \* app: per file saved, [title, path, before] (history)
    result,     \* app: [code, error, path], the exit status and what was printed
    warnings,   \* app: the warnings printed on the way, in order
    values_array, \* stacked bar: values_array[j][i], period j, category i
    lbl,        \* stacked bar: [i, j], the bar _add_value_labels is at
    drawn,      \* stacked bar: the <<i, j>> for which a value label was drawn
    pie_values, \* pie: the values of the wedges
    percentages,\* pie: the percentages computed for the wedges (doubles)
    ppc,        \* pie: position of PieChart.create_chart
    bottom,     \* stacked bar: bottom[j], where the next segment of period j starts
    bars,       \* stacked bar: bars[i][j] = [y, height], the rectangle of category i, period j
    bpc,        \* stacked bar: [at, i, j], the loop create_chart is in and its indices
    texts,      \* stacked bar: the value labels drawn, [i, j, twice_y]
    categories, \* category colors: the category names given to _get_category_colors
    colors      \* category colors: the list _get_category_colors builds

slugVars == <<text, slug, reslug, spc>>
valVars == <<vcfg, v, vchecks>>
chartVars == <<gcfg, cw, ch, chart, fig, raster, cpc>>
appVars == <<inv, pc, config, canvas, graph_image, output_path, fs, dirs, written, result,
            warnings>>
stackVars == <<values_array, lbl, drawn>>
pieVars == <<pie_values, percentages, ppc>>
barVars == <<bottom, bars, bpc, texts>>
colorVars == <<categories, colors>>

vars == <<text, slug, reslug, spc, vcfg, v, vchecks, gcfg, cw, ch, chart, fig, raster, cpc,
          inv, pc, config, canvas, graph_image, output_path, fs, dirs, written, result,
          warnings, values_array, lbl, drawn, pie_values, percentages, ppc,
          bottom, bars, bpc, texts, categories, colors>>

(***************************************************************************)
(* Bounds of the model.                                                    *)
(***************************************************************************)
MaxTextLen == 4
\* longest labels / years / categories list and longest row of values
MaxLen == 2
\* longest values list
MaxRows == 2
\* invocations of generate_chart in one behaviour
MaxInvocations == 2

(***************************************************************************)
(* Characters, as the regular expressions of slugify classify them.        *)
(***************************************************************************)
UpperSeq == <<"A","B","C","D","E","F","G","H","I","J","K","L","M",
              "N","O","P","Q","R","S","T","U","V","W","X","Y","Z">>
LowerSeq == <<"a","b","c","d","e","f","g","h","i","j","k","l","m",
              "n","o","p","q","r","s","t","u","v","w","x","y","z">>
DigitSeq == <<"0","1","2","3","4","5","6","7","8","9">>

Range(f) == {f[i] : i \in DOMAIN f}

Upper == Range(UpperSeq)
Lower == Range(LowerSeq)
Digit == Range(DigitSeq)
\* \s of the re module
Whitespace == {" ", "\t", "\n", "\r"}

\* the characters the class [^a-zA-Z0-9\s-] does not match, i.e. those kept
AllowedNoHyphen == Upper \cup Lower \cup Digit \cup Whitespace
Allowed == Upper \cup Lower \cup Digit \cup Whitespace \cup {"-"}

\* str.lower() on one character
LowerChar(c) ==
    IF c \in Upper THEN LowerSeq[CHOOSE i \in DOMAIN UpperSeq : UpperSeq[i] = c]
    ELSE c

\* re.sub(r'[^a-zA-Z0-9\s-]', '', text)
RemoveDisallowed(t) == SelectSeq(t, LAMBDA c : c \in Allowed)

\* str.strip(): leading and trailing whitespace dropped
RECURSIVE LStrip(_)
LStrip(t) ==
    IF t # <<>> /\ Head(t) \in Whitespace THEN LStrip(Tail(t)) ELSE t

RECURSIVE RStrip(_)
RStrip(t) ==
    IF t # <<>> /\ t[Len(t)] \in Whitespace
    THEN RStrip(SubSeq(t, 1, Len(t) - 1))
    ELSE t

Strip(t) == RStrip(LStrip(t))

\* re.sub(r'\s', '-', t): every whitespace character becomes one hyphen
HyphenatePerChar(t) == [i \in DOMAIN t |-> IF t[i] \in Whitespace THEN "-" ELSE t[i]]

\* re.sub(r'\s+', '-', t): every maximal run of whitespace becomes one hyphen
RECURSIVE HyphenateRuns(_)
HyphenateRuns(t) ==
    IF t = <<>> THEN <<>>
    ELSE IF Head(t) \in Whitespace
         THEN <<"-">> \o HyphenateRuns(LStrip(t))
         ELSE <<Head(t)>> \o HyphenateRuns(Tail(t))

\* str.lower()
LowerStr(t) == [i \in DOMAIN t |-> LowerChar(t[i])]

\* slugify(text), text_utils.py
slugify(t) == LowerStr(HyphenateRuns(Strip(RemoveDisallowed(t))))

(***************************************************************************)
(* Dicts are functions on the set of their keys.                           *)
(***************************************************************************)
Restrict(f, S) == [k \in S |-> f[k]]

\* the lists of at most n copies of e
ListsOf(e, n) == {[i \in 1..k |-> e] : k \in 0..n}

(***************************************************************************)
(* constants.py                                                            *)
(***************************************************************************)
SUPPORTED_CHART_TYPES == <<"stacked_bar", "line", "pie", "area", "bar">>

(***************************************************************************)
(* validate_config, text_utils.py.  The validator state is [at, i, err]:   *)
(* the statement about to run, the index of the loop it is in, and the     *)
(* message of the ValueError raised.  at = "ok" is the normal return and   *)
(* at = "raised" the exceptional one.                                      *)
(***************************************************************************)
required_fields_swapped == <<"graph", "title">>
required_fields == <<"title", "graph">>
stacked_required_fields == <<"years", "categories", "values">>
linear_required_fields == <<"labels", "values">>
pie_required_fields == <<"labels", "values">>

MissingField(name) == "Missing required field: " \o name
UnsupportedType(t) ==
    "Unsupported chart type: " \o t \o ". Supported types: stacked_bar, line, area, bar, pie"
StackedLenError == "graph.data.values must have same length as graph.data.years"
StackedRowError == "Each year's data must have same length as categories"
LinearLenError == "graph.data.labels and graph.data.values must have same length"

Raise(msg) == [at |-> "raised", i |-> 0, err |-> msg]
Goto(at, i) == [at |-> at, i |-> i, err |-> ""]

ValidateStart == Goto("required", 1)

\* for field in fields: if field not in d: raise ...; then continue at `next`
RequiredLoop(d, fields, prefix, st, next) ==
    IF fields[st.i] \notin DOMAIN d THEN Raise(MissingField(prefix \o fields[st.i]))
    ELSE IF st.i < Len(fields) THEN Goto(st.at, st.i + 1)
    ELSE next

\* len(year_data) != len(categories), with len(years) in the place of len(categories)
StackedRowMismatchYears(data, i) == Len(data["values"][i]) # Len(data["years"])
\* len(year_data) != len(categories)
StackedRowMismatch(data, i) == Len(data["values"][i]) # Len(data["categories"])

\* one statement of validate_config and of the _validate_* function it calls
ValidateStep(c, st) ==
    LET data == c["graph"]["data"] IN
    CASE st.at = "required" ->
            RequiredLoop(c, required_fields, "", st, Goto("type", 0))
      [] st.at = "type" ->
            IF "type" \notin DOMAIN c["graph"] THEN Raise(MissingField("graph.type"))
            ELSE Goto("data", 0)
      [] st.at = "data" ->
            IF "data" \notin DOMAIN c["graph"] THEN Raise(MissingField("graph.data"))
            ELSE Goto("dispatch", 0)
      [] st.at = "dispatch" ->
            LET graph_type == c["graph"]["type"] IN
            IF graph_type = "stacked_bar" THEN Goto("stacked_required", 1)
            ELSE IF graph_type \in {"line", "area", "bar"} THEN Goto("linear_required", 1)
            ELSE IF graph_type = "pie" THEN Goto("pie_required", 1)
            ELSE Raise(UnsupportedType(graph_type))
      [] st.at = "stacked_required" ->
            RequiredLoop(data, stacked_required_fields, "graph.data.", st,
                         Goto("stacked_len", 0))
      [] st.at = "stacked_len" ->
            IF Len(data["values"]) # Len(data["years"]) THEN Raise(StackedLenError)
            ELSE Goto("stacked_rows", 1)
      [] st.at = "stacked_rows" ->
            IF st.i > Len(data["values"]) THEN Goto("ok", 0)
            ELSE IF StackedRowMismatch(data, st.i) THEN Raise(StackedRowError)
            ELSE Goto("stacked_rows", st.i + 1)
      [] st.at = "linear_required" ->
            RequiredLoop(data, linear_required_fields, "graph.data.", st,
                         Goto("linear_len", 0))
      [] st.at = "linear_len" ->
            IF Len(data["labels"]) # Len(data["values"]) THEN Raise(LinearLenError)
            ELSE Goto("ok", 0)
      [] st.at = "pie_required" ->
            RequiredLoop(data, pie_required_fields, "graph.data.", st,
                         Goto("pie_len", 0))
      [] st.at = "pie_len" ->
            IF Len(data["labels"]) # Len(data["values"]) THEN Raise(LinearLenError)
            ELSE Goto("ok", 0)

ValidateDone(st) == st.at \in {"ok", "raised"}

\* validate_config(config) run to its return or raise: the message, "" for none
RECURSIVE ValidateFrom(_, _)
ValidateFrom(c, st) ==
    IF ValidateDone(st) THEN st.err ELSE ValidateFrom(c, ValidateStep(c, st))

validate_config(c) == ValidateFrom(c, ValidateStart)

\* the check a statement belongs to, numbered in the order of the documentation:
\* 1 title, 2 graph, 3 graph.type, 4 graph.data, 5 supported type, 6 per-type data
CheckOf(st) ==
    CASE st.at = "required" -> st.i
      [] st.at = "type" -> 3
      [] st.at = "data" -> 4
      [] st.at = "dispatch" -> 5
      [] OTHER -> 6

(***************************************************************************)
(* ChartFactory, chart_factory.py, and BaseChart, base_chart.py.           *)
(***************************************************************************)
\* Python's None, as config.get('type') returns it for an absent key
None == "None"

chart_classes_area_as_line ==
    [t \in {"stacked_bar", "line", "pie", "area", "bar"} |->
        CASE t = "stacked_bar" -> "StackedBarChart"
          [] t = "line" -> "LineChart"
          [] t = "pie" -> "PieChart"
          [] t = "area" -> "LineChart"
          [] t = "bar" -> "BarChart"]
\* ChartFactory._chart_classes
chart_classes ==
    [t \in {"stacked_bar", "line", "pie", "area", "bar"} |->
        CASE t = "stacked_bar" -> "StackedBarChart"
          [] t = "line" -> "LineChart"
          [] t = "pie" -> "PieChart"
          [] t = "area" -> "AreaChart"
          [] t = "bar" -> "BarChart"]

FactoryUnsupported(t) ==
    "Unsupported chart type: " \o t
        \o ". Supported types: ['stacked_bar', 'line', 'pie', 'area', 'bar']"
NotImplemented(t) == "Chart type '" \o t \o "' not implemented"
KeyErrorData == "'data'"

NoChart == [err |-> "", cls |-> None, width |-> 0, height |-> 0]
ChartRaise(msg) == [NoChart EXCEPT !.err = msg]

\* ChartFactory.create_chart(config, width, height); the constructor
\* BaseChart.__init__ reads config['data']
create_chart(graph_config, width, height) ==
    LET chart_type == IF "type" \in DOMAIN graph_config THEN graph_config["type"] ELSE None IN
    IF chart_type \notin Range(SUPPORTED_CHART_TYPES)
    THEN ChartRaise(FactoryUnsupported(chart_type))
    ELSE IF chart_type \notin DOMAIN chart_classes
    THEN ChartRaise(NotImplemented(chart_type))
    ELSE IF "data" \notin DOMAIN graph_config
    THEN ChartRaise(KeyErrorData)
    ELSE [err |-> "", cls |-> chart_classes[chart_type],
          width |-> width, height |-> height]

\* plt.subplots(..., dpi=100)
FIGURE_DPI == 100
\* fig.savefig(..., dpi=300)
SAVEFIG_DPI == 300
\* savefig(bbox_inches='tight') pads the bounding box by pad_inches = 0.1 in on
\* every side; lengths of a figure are kept in hundredths of an inch
PAD_INCHES_100 == 10

NoFigure == [size |-> <<0, 0>>, dpi |-> 0, bbox |-> <<0, 0>>]
NoImage == [size |-> <<0, 0>>, mode |-> None]

\* BaseChart.create_figure: figsize = (width/100, height/100) inches
create_figure(c) ==
    [size |-> <<c.width, c.height>>, dpi |-> FIGURE_DPI, bbox |-> <<0, 0>>]

\* what the tight bounding box of the drawn figure may be: the figure itself, or
\* narrower or wider by what the drawn artists leave free or overhang (matplotlib
\* decides; hundredths of an inch)
BboxDeltas == {-8, 0, 5}
TightBboxes(f) == {<<f.size[1] + dx, f.size[2] + dy>> : dx, dy \in BboxDeltas}

\* savefig at the figure's own dpi and size
convert_to_pil_image_figsize(f) ==
    [size |-> <<(f.size[1] * f.dpi) \div 100, (f.size[2] * f.dpi) \div 100>>,
     mode |-> "RGBA"]
\* BaseChart.convert_to_pil_image: savefig(format='png', bbox_inches='tight',
\* dpi=300), reopened with Image.open
convert_to_pil_image(f) ==
    [size |-> <<((f.bbox[1] + 2 * PAD_INCHES_100) * SAVEFIG_DPI) \div 100,
                ((f.bbox[2] + 2 * PAD_INCHES_100) * SAVEFIG_DPI) \div 100>>,
     mode |-> "RGBA"]

\* the figure after the renderer's create_chart has drawn on it and called
\* tight_layout
Drawn(f, bbox) == [f EXCEPT !.bbox = bbox]

\* the rasters render() can return for chart c
Renderings(c) ==
    {[fig |-> Drawn(create_figure(c), b),
      image |-> convert_to_pil_image(Drawn(create_figure(c), b))] :
        b \in TightBboxes(create_figure(c))}

RenderingFailure == "rendering error"

(***************************************************************************)
(* constants.py, layout_utils.py, ui_utils.py                              *)
(***************************************************************************)
GRID_UNIT == 8
CANVAS_WIDTH == 1600
CANVAS_HEIGHT == 900
\* LAYOUT_CONFIG
card_margin == GRID_UNIT * 4
border_radius == 16
shadow_blur == 16
shadow_offset == <<0, 4>>
\* the width the logo position reserves
LOGO_WIDTH_BUDGET == 200

\* calculate_layout_positions with the logo's margin forgotten
calculate_layout_positions_no_logo_margin ==
    [title_x |-> GRID_UNIT * 8,
     title_y |-> GRID_UNIT * 8,
     subtitle_x |-> GRID_UNIT * 8,
     subtitle_y |-> GRID_UNIT * 16,
     logo_x |-> CANVAS_WIDTH - LOGO_WIDTH_BUDGET,
     logo_y |-> GRID_UNIT * 8,
     graph_x |-> GRID_UNIT * 8,
     graph_y |-> GRID_UNIT * 32,
     graph_width |-> CANVAS_WIDTH - (GRID_UNIT * 16),
     graph_height |-> CANVAS_HEIGHT - (GRID_UNIT * 64),
     footer_y |-> CANVAS_HEIGHT - (GRID_UNIT * 12)]
\* calculate_layout_positions, layout_utils.py
calculate_layout_positions ==
    [title_x |-> GRID_UNIT * 8,
     title_y |-> GRID_UNIT * 8,
     subtitle_x |-> GRID_UNIT * 8,
     subtitle_y |-> GRID_UNIT * 16,
     logo_x |-> CANVAS_WIDTH - (GRID_UNIT * 8) - LOGO_WIDTH_BUDGET,
     logo_y |-> GRID_UNIT * 8,
     graph_x |-> GRID_UNIT * 8,
     graph_y |-> GRID_UNIT * 32,
     graph_width |-> CANVAS_WIDTH - (GRID_UNIT * 16),
     graph_height |-> CANVAS_HEIGHT - (GRID_UNIT * 64),
     footer_y |-> CANVAS_HEIGHT - (GRID_UNIT * 12)]

calculate_card_dimensions ==
    [width |-> CANVAS_WIDTH - (card_margin * 2),
     height |-> CANVAS_HEIGHT - (card_margin * 2),
     margin |-> card_margin,
     x |-> card_margin,
     y |-> card_margin]

CONTAINER_PADDING == 16

\* a container with a padding of 40 px
calculate_graph_container_dimensions_padding_40(graph_width, graph_height) ==
    [width |-> graph_width + (40 * 2),
     height |-> graph_height + (40 * 2),
     padding |-> 40,
     offset_x |-> -40,
     offset_y |-> -40]
\* calculate_graph_container_dimensions, dashboard_renderer.py
calculate_graph_container_dimensions(graph_width, graph_height) ==
    [width |-> graph_width + (CONTAINER_PADDING * 2),
     height |-> graph_height + (CONTAINER_PADDING * 2),
     padding |-> CONTAINER_PADDING,
     offset_x |-> -CONTAINER_PADDING,
     offset_y |-> -CONTAINER_PADDING]

\* DashboardRenderer.__init__
positions == calculate_layout_positions
card_dims == calculate_card_dimensions

\* An image is [size, mode]; the canvas also keeps what was painted on it, in
\* order: [name, pos, size] per paste or text.
NoCanvas == [size |-> <<0, 0>>, mode |-> None, layers |-> <<>>]

\* Image.new('RGB', (height, width))
create_gradient_background_swapped ==
    [size |-> <<900, 1600>>, mode |-> "RGB", layers |-> <<[name |-> "gradient", pos |-> <<0, 0>>, size |-> <<900, 1600>>]>>]
\* create_gradient_background: Image.new('RGB', (1600, 900)), one line per row
create_gradient_background ==
    [size |-> <<1600, 900>>, mode |-> "RGB", layers |-> <<[name |-> "gradient", pos |-> <<0, 0>>, size |-> <<1600, 900>>]>>]

\* Image.convert(mode): same pixels grid, another mode
Convert(img, mode) == [img EXCEPT !.mode = mode]

\* create_rounded_rectangle(width, height, radius, fill_color)
create_rounded_rectangle(width, height, radius) == [size |-> <<width, height>>, mode |-> "RGBA"]

\* add_shadow with its two pastes in the other order: the shadow over the image
add_shadow_image_first(image, offset, blur_radius) ==
    LET shadow_width == image.size[1] + offset[1] + blur_radius * 2
        shadow_height == image.size[2] + offset[2] + blur_radius * 2
        x0 == blur_radius
        y0 == blur_radius
        x1 == shadow_width - blur_radius - offset[1]
        y1 == shadow_height - blur_radius - offset[2]
    IN  [size |-> <<shadow_width, shadow_height>>,
         mode |-> "RGBA",
         layers |-> <<[name |-> "image", pos |-> <<blur_radius, blur_radius>>,
                       size |-> image.size],
                      [name |-> "shadow", pos |-> <<x0, y0>>,
                       size |-> <<x1 - x0 + 1, y1 - y0 + 1>>]>>]
\* add_shadow(image, offset, blur_radius): a transparent image of the enlarged
\* size on which the shadow is pasted first and the image second.  The layer
\* "shadow" is the rectangle drawn before the blur,
\* [blur_radius, blur_radius, shadow_width - blur_radius - offset[0],
\*  shadow_height - blur_radius - offset[1]], both corners included.
add_shadow(image, offset, blur_radius) ==
    LET shadow_width == image.size[1] + offset[1] + blur_radius * 2
        shadow_height == image.size[2] + offset[2] + blur_radius * 2
        x0 == blur_radius
        y0 == blur_radius
        x1 == shadow_width - blur_radius - offset[1]
        y1 == shadow_height - blur_radius - offset[2]
    IN  [size |-> <<shadow_width, shadow_height>>,
         mode |-> "RGBA",
         layers |-> <<[name |-> "shadow", pos |-> <<x0, y0>>,
                       size |-> <<x1 - x0 + 1, y1 - y0 + 1>>],
                      [name |-> "image", pos |-> <<blur_radius, blur_radius>>,
                       size |-> image.size]>>]

\* what is painted on an image, in order
LayersOf(img) == IF "layers" \in DOMAIN img THEN img.layers ELSE <<>>

\* Image.paste(img, pos, mask): the destination keeps its size and mode; what
\* falls outside it is clipped.  What was painted on img comes with it, moved
\* by pos.
Paste(cv, name, img, pos) ==
    [cv EXCEPT !.layers =
        Append(@, [name |-> name, pos |-> pos, size |-> img.size])
        \o [i \in DOMAIN LayersOf(img) |->
               [name |-> name \o "." \o LayersOf(img)[i].name,
                pos |-> <<pos[1] + LayersOf(img)[i].pos[1],
                          pos[2] + LayersOf(img)[i].pos[2]>>,
                size |-> LayersOf(img)[i].size]]]

\* ImageDraw.text(pos, text)
DrawText(cv, name, pos) ==
    [cv EXCEPT !.layers = Append(@, [name |-> name, pos |-> pos, size |-> <<0, 0>>])]

\* Image.resize(size)
Resize(img, size) == [img EXCEPT !.size = size]

\* _add_chart without the resize
KeepNativeSize(img, size) == img
\* _add_chart: "Resize graph to exact dimensions if needed"
FitChart(img, size) == IF img.size # size THEN Resize(img, size) ELSE img

\* The logo files of the filesystem: absent, not an image, or an image of a size.
LogoFile(path) ==
    CASE path = "missing.png" -> [exists |-> FALSE, image |-> FALSE, size |-> <<0, 0>>]
      [] path = "corrupt.png" -> [exists |-> TRUE,  image |-> FALSE, size |-> <<0, 0>>]
      [] path = "logo.png"    -> [exists |-> TRUE,  image |-> TRUE,  size |-> <<400, 270>>]
      [] path = "wide.png"    -> [exists |-> TRUE,  image |-> TRUE,  size |-> <<1000, 270>>]
      [] path = "small.png"   -> [exists |-> TRUE,  image |-> TRUE,  size |-> <<120, 60>>]

\* load_and_resize_logo(logo_path): None, or the logo with its height brought
\* down to max_height = int(CANVAS_HEIGHT * 0.15) and its width to
\* int(width * (max_height / height)); the width is not looked at
load_and_resize_logo(logo_path) ==
    LET f == LogoFile(logo_path)
        max_height == (CANVAS_HEIGHT * 15) \div 100
    IN  IF logo_path = "" \/ ~f.exists THEN NoImage
        ELSE IF ~f.image THEN NoImage
        ELSE IF f.size[2] > max_height
        THEN [size |-> <<(f.size[1] * max_height) \div f.size[2], max_height>>,
              mode |-> "RGBA"]
        ELSE [size |-> f.size, mode |-> "RGBA"]

\* load_and_resize_logo: what it prints.  Only the except branch prints; the
\* early return for a path that does not exist prints nothing.
CouldNotLoadLogo(logo_path) == "Warning: Could not load logo from " \o logo_path
logo_warnings(logo_path) ==
    LET f == LogoFile(logo_path)
    IN  IF logo_path # "" /\ f.exists /\ ~f.image
        THEN <<CouldNotLoadLogo(logo_path)>>
        ELSE <<>>

(***************************************************************************)
(* file_utils.py.  A path is a sequence of components, each a string (a    *)
(* sequence of characters).                                                *)
(***************************************************************************)
PNG == <<".", "p", "n", "g">>

\* str(counter)
RECURSIVE Decimal(_)
Decimal(n) ==
    IF n < 10 THEN <<DigitSeq[n + 1]>>
    ELSE Decimal(n \div 10) \o <<DigitSeq[(n % 10) + 1]>>

\* os.path.join(output_dir, filename)
JoinPath(output_dir, filename) == Append(output_dir, filename)

\* f"{base_name}-{counter}.png"
NumberedName(base_name, counter) == base_name \o <<"-">> \o Decimal(counter) \o PNG

\* the while loop of generate_unique_filename, entered with filepath and counter
RECURSIVE UniqueLoop(_, _, _, _, _)
UniqueLoop(files, output_dir, base_name, filepath, counter) ==
    IF filepath \in files
    THEN UniqueLoop(files, output_dir, base_name,
                    JoinPath(output_dir, NumberedName(base_name, counter)), counter + 1)
    ELSE filepath

\* generate_unique_filename with `if` in the place of `while`
generate_unique_filename_once(files, output_dir, base_name) ==
    IF JoinPath(output_dir, base_name \o PNG) \in files
    THEN JoinPath(output_dir, NumberedName(base_name, 1))
    ELSE JoinPath(output_dir, base_name \o PNG)
\* generate_unique_filename without the existence check
generate_filename_unchecked(files, output_dir, base_name) ==
    JoinPath(output_dir, base_name \o PNG)
\* generate_unique_filename(output_dir, base_name); files are the paths for which
\* os.path.exists holds
generate_unique_filename(files, output_dir, base_name) ==
    UniqueLoop(files, output_dir, base_name, JoinPath(output_dir, base_name \o PNG), 1)

\* os.path.relpath(filepath) for a path given relative to the working directory:
\* the path with its "." components dropped
get_relative_path(filepath) == SelectSeq(filepath, LAMBDA c : c # <<".">>)

\* the app variables before generate_chart is called
NoResult == [code |-> -1, error |-> "", path |-> <<>>]

IdleApp ==
    /\ inv = 0
    /\ pc = "idle"
    /\ config = <<>>
    /\ canvas = NoCanvas
    /\ graph_image = NoImage
    /\ output_path = <<>>
    /\ fs = <<>>
    /\ dirs = {}
    /\ written = <<>>
    /\ result = NoResult
    /\ warnings = <<>>

\* the chart variables before create_chart is called
IdleChart ==
    /\ gcfg = <<>>
    /\ cw = 0
    /\ ch = 0
    /\ chart = NoChart
    /\ fig = NoFigure
    /\ raster = NoImage
    /\ cpc = "start"

\* the stacked-bar variables before _add_value_labels is called
IdleStack ==
    /\ values_array = <<>>
    /\ lbl = [i |-> 0, j |-> 0]
    /\ drawn = {}

\* the bars of StackedBarChart.create_chart before it is called
IdleBars ==
    /\ bottom = <<>>
    /\ bars = <<>>
    /\ bpc = [at |-> "start", i |-> 0, j |-> 0]
    /\ texts = {}

\* the category colors before _get_category_colors is called
IdleColors ==
    /\ categories = <<>>
    /\ colors = <<>>

\* the pie variables before PieChart.create_chart is called
IdlePie ==
    /\ pie_values = <<>>
    /\ percentages = <<>>
    /\ ppc = "start"

\* the slugify variables before slugify is called
IdleSlug ==
    /\ slug = <<>>
    /\ reslug = <<>>
    /\ spc = "start"

(***************************************************************************)
(* Inputs of the validation specification: every dict over the keys the    *)
(* validator reads.  An element of `values` is a row; for line, area, bar  *)
(* and pie it stands for a number, which the validator never inspects.     *)
(***************************************************************************)
TypeTags == Range(SUPPORTED_CHART_TYPES) \cup {"scatter", "Bar"}
Labels == ListsOf("x", MaxLen)
Rows == ListsOf(1, MaxLen)
Values == UNION {[1..k -> Rows] : k \in 0..MaxRows}

DataDicts ==
    {Restrict(d, S) :
        d \in [labels : Labels, values : Values, years : Labels, categories : Labels],
        S \in SUBSET {"labels", "values", "years", "categories"}}

Graphs ==
    {Restrict(g, S) : g \in [type : TypeTags, data : DataDicts],
                      S \in SUBSET {"type", "data"}}

ValConfigs ==
    {Restrict(c, S) : c \in [title : {<<"Q", "1">>}, graph : Graphs],
                      S \in SUBSET {"title", "graph"}}

\* the validation variables before validate_config is called
IdleValidate ==
    /\ vcfg = <<>>
    /\ v = ValidateStart
    /\ vchecks = <<>>

InitValidate ==
    /\ vcfg \in ValConfigs
    /\ v = ValidateStart
    /\ vchecks = <<>>
    /\ text = <<>>
    /\ IdleSlug
    /\ IdleChart
    /\ IdleApp
    /\ IdleStack
    /\ IdlePie
    /\ IdleBars
    /\ IdleColors

\* validate_config executes its next statement
ValidateStatement ==
    /\ ~ValidateDone(v)
    /\ v' = ValidateStep(vcfg, v)
    /\ vchecks' = Append(vchecks, CheckOf(v))
    /\ UNCHANGED vcfg
    /\ UNCHANGED <<slugVars, chartVars, appVars, stackVars, pieVars, barVars, colorVars>>

NextValidate == ValidateStatement

SpecValidate == InitValidate /\ [][NextValidate]_vars

(***************************************************************************)
(* Inputs of the slugify specification.                                    *)
(***************************************************************************)
SlugAlphabet == {"A", "b", "3", " ", "\t", "-", "!", "U+00E9"}

Texts == UNION {[1..n -> SlugAlphabet] : n \in 0..MaxTextLen}

ExampleTitle == <<"C","B","D"," ","M","a","r","k","e","t","!","!"," ","2","0","2","4">>
ExampleSlug == <<"c","b","d","-","m","a","r","k","e","t","-","2","0","2","4">>

InitSlug ==
    /\ text \in Texts \cup {ExampleTitle}
    /\ IdleSlug
    /\ IdleValidate
    /\ IdleChart
    /\ IdleApp
    /\ IdleStack
    /\ IdlePie
    /\ IdleBars
    /\ IdleColors

\* slug = slugify(title)
Slugify ==
    /\ spc = "start"
    /\ slug' = slugify(text)
    /\ spc' = "slugged"
    /\ UNCHANGED <<text, reslug>>
    /\ UNCHANGED <<valVars, chartVars, appVars, stackVars, pieVars, barVars, colorVars>>

\* slugify applied to a slug
Reslugify ==
    /\ spc = "slugged"
    /\ reslug' = slugify(slug)
    /\ spc' = "reslugged"
    /\ UNCHANGED <<text, slug>>
    /\ UNCHANGED <<valVars, chartVars, appVars, stackVars, pieVars, barVars, colorVars>>

NextSlug == Slugify \/ Reslugify

SpecSlug == InitSlug /\ [][NextSlug]_vars

(***************************************************************************)
(* The chart specification: ChartFactory.create_chart on any graph config  *)
(* and size, then render() of the chart it returned.                       *)
(***************************************************************************)
ChartWidths == {1472, 800}
ChartHeights == {388, 600}

\* data dicts that satisfy every type's shape at once
ChartData ==
    {d \in DataDicts :
        /\ DOMAIN d = {"labels", "values", "years", "categories"}
        /\ Len(d["labels"]) = Len(d["values"])
        /\ Len(d["years"]) = Len(d["values"])
        /\ \A j \in DOMAIN d["values"] : Len(d["values"][j]) = Len(d["categories"])}

GraphConfigs ==
    {Restrict(g, S) : g \in [type : TypeTags, data : ChartData],
                      S \in SUBSET {"type", "data"}}

InitChart ==
    /\ gcfg \in GraphConfigs
    /\ cw \in ChartWidths
    /\ ch \in ChartHeights
    /\ chart = NoChart
    /\ fig = NoFigure
    /\ raster = NoImage
    /\ cpc = "start"
    /\ text = <<>>
    /\ IdleSlug
    /\ IdleValidate
    /\ IdleApp
    /\ IdleStack
    /\ IdlePie
    /\ IdleBars
    /\ IdleColors

\* chart = ChartFactory.create_chart(config, width, height)
CreateChart ==
    /\ cpc = "start"
    /\ chart' = create_chart(gcfg, cw, ch)
    /\ cpc' = IF chart'.err = "" THEN "created" ELSE "raised"
    /\ UNCHANGED <<gcfg, cw, ch, fig, raster>>
    /\ UNCHANGED <<slugVars, valVars, appVars, stackVars, pieVars, barVars, colorVars>>

\* chart.render() returns
Render ==
    /\ cpc = "created"
    /\ \E r \in Renderings(chart) :
          /\ fig' = r.fig
          /\ raster' = r.image
    /\ cpc' = "rendered"
    /\ UNCHANGED <<gcfg, cw, ch, chart>>
    /\ UNCHANGED <<slugVars, valVars, appVars, stackVars, pieVars, barVars, colorVars>>

\* chart.render() raises what the plotting backend raised
RenderRaises ==
    /\ cpc = "created"
    /\ chart' = [chart EXCEPT !.err = RenderingFailure]
    /\ cpc' = "raised"
    /\ UNCHANGED <<gcfg, cw, ch, fig, raster>>
    /\ UNCHANGED <<slugVars, valVars, appVars, stackVars, pieVars, barVars, colorVars>>

NextChart == CreateChart \/ Render \/ RenderRaises

SpecChart == InitChart /\ [][NextChart]_vars

(***************************************************************************)
(* StackedBarChart._add_value_labels.  values_array[j][i] is the value of   *)
(* period (year) j and category i; bar j of bar group i has that height.   *)
(* The values are integers, as np.array makes of a JSON list of integers,  *)
(* for which the quotient's rounding never crosses the literal 0.1.        *)
(***************************************************************************)
MaxPeriods == 2
MaxCategories == 2
StackValues == {-3, 0, 1, 9}

Matrices ==
    UNION {[1..np -> [1..nc -> StackValues]] : np \in 1..MaxPeriods, nc \in 1..MaxCategories}

\* sum(values_array[j])
RECURSIVE SumSeq(_)
SumSeq(s) == IF s = <<>> THEN 0 ELSE Head(s) + SumSeq(Tail(s))

\* height / total_height >= 0.1
AtLeastTenth(height, total_height) ==
    CASE total_height > 0 -> 10 * height >= total_height
      [] total_height < 0 -> 10 * height <= total_height
      [] OTHER -> height > 0
\* height / total_height > 0.1, a division of numpy scalars: by zero it gives
\* inf for a positive height (and -inf or nan otherwise), never an exception
GreaterThanTenth(height, total_height) ==
    CASE total_height > 0 -> 10 * height > total_height
      [] total_height < 0 -> 10 * height < total_height
      [] OTHER -> height > 0

\* the two tests of _add_value_labels under which ax.text is called for bar j of
\* group i
LabelShown(values, i, j) ==
    LET height == values[j][i]
        total_height == SumSeq(values[j])
    IN  height > 0 /\ GreaterThanTenth(height, total_height)

NumCategories(values) == Len(values[1])
NumPeriods(values) == Len(values)

\* the bar after bar j of group i, in the order of the two loops
NextBar(values, at) ==
    IF at.j < NumPeriods(values) THEN [at EXCEPT !.j = @ + 1]
    ELSE [i |-> at.i + 1, j |-> 1]

InitLabels ==
    /\ values_array \in Matrices
    /\ lbl = [i |-> 1, j |-> 1]
    /\ drawn = {}
    /\ IdlePie
    /\ IdleBars
    /\ IdleColors
    /\ text = <<>>
    /\ IdleSlug
    /\ IdleValidate
    /\ IdleChart
    /\ IdleApp

\* one pass of the inner loop in which the label is drawn
DrawValueLabel ==
    /\ lbl.i <= NumCategories(values_array)
    /\ LabelShown(values_array, lbl.i, lbl.j)
    /\ drawn' = drawn \cup {<<lbl.i, lbl.j>>}
    /\ lbl' = NextBar(values_array, lbl)
    /\ UNCHANGED values_array
    /\ UNCHANGED <<slugVars, valVars, chartVars, appVars, pieVars, barVars, colorVars>>

\* one pass of the inner loop in which no label is drawn
SkipValueLabel ==
    /\ lbl.i <= NumCategories(values_array)
    /\ ~LabelShown(values_array, lbl.i, lbl.j)
    /\ lbl' = NextBar(values_array, lbl)
    /\ UNCHANGED <<values_array, drawn>>
    /\ UNCHANGED <<slugVars, valVars, chartVars, appVars, pieVars, barVars, colorVars>>

NextLabels == DrawValueLabel \/ SkipValueLabel

SpecLabels == InitLabels /\ [][NextLabels]_vars

(***************************************************************************)
(* StackedBarChart.create_chart: the loop that stacks the segments, then   *)
(* _add_value_labels on the bars it made.                                  *)
(***************************************************************************)

\* values_array[j][:i], 0-based in the code: the values of period j below category i
Below(values, i, j) == SubSeq(values[j], 1, i - 1)

\* ax.bar(x_positions, values_array[:, i], bottom=bottom): one rectangle per
\* period, from bottom[j], of height values_array[j][i]
BarGroup(values, i, bottoms) ==
    [j \in 1..NumPeriods(values) |-> [y |-> bottoms[j], height |-> values[j][i]]]

\* twice label_y = bottom_height + height / 2 (the half is kept exact)
TwiceLabelY(values, i, j, height) == 2 * SumSeq(Below(values, i, j)) + height

InitBars ==
    /\ values_array \in Matrices
    /\ bottom = [j \in 1..NumPeriods(values_array) |-> 0]
    /\ bars = <<>>
    /\ bpc = [at |-> "bars", i |-> 1, j |-> 1]
    /\ texts = {}
    /\ lbl = [i |-> 0, j |-> 0]
    /\ drawn = {}
    /\ IdlePie
    /\ IdleColors
    /\ text = <<>>
    /\ IdleSlug
    /\ IdleValidate
    /\ IdleChart
    /\ IdleApp

\* one pass of the loop that stacks the bars without advancing bottom
AddBarUnstacked ==
    /\ bpc.at = "bars"
    /\ bars' = Append(bars, BarGroup(values_array, bpc.i, bottom))
    /\ bottom' = bottom
    /\ bpc' = IF bpc.i < NumCategories(values_array) THEN [bpc EXCEPT !.i = @ + 1]
              ELSE [at |-> "labels", i |-> 1, j |-> 1]
    /\ UNCHANGED <<values_array, lbl, drawn, texts>>
    /\ UNCHANGED <<slugVars, valVars, chartVars, appVars, pieVars, colorVars>>
\* one pass of the loop of create_chart, lines 41-46; after the last the bars go
\* to _add_value_labels (line 60)
AddBar ==
    /\ bpc.at = "bars"
    /\ bars' = Append(bars, BarGroup(values_array, bpc.i, bottom))
    /\ bottom' = [j \in DOMAIN bottom |-> bottom[j] + values_array[j][bpc.i]]
    /\ bpc' = IF bpc.i < NumCategories(values_array) THEN [bpc EXCEPT !.i = @ + 1]
              ELSE [at |-> "labels", i |-> 1, j |-> 1]
    /\ UNCHANGED <<values_array, lbl, drawn, texts>>
    /\ UNCHANGED <<slugVars, valVars, chartVars, appVars, pieVars, colorVars>>

\* the bar after bars[i][j] in _add_value_labels, "done" after the last
AfterBar(values, at) ==
    LET n == NextBar(values, [i |-> at.i, j |-> at.j])
    IN  IF n.i <= NumCategories(values) THEN [at |-> "labels", i |-> n.i, j |-> n.j]
        ELSE [at |-> "done", i |-> n.i, j |-> n.j]

\* the two tests of _add_value_labels on height = bar.get_height()
TextShown(values, height, j) ==
    height > 0 /\ GreaterThanTenth(height, SumSeq(values[j]))

\* one pass of the inner loop of _add_value_labels in which ax.text is called
AddValueLabel ==
    /\ bpc.at = "labels"
    /\ LET height == bars[bpc.i][bpc.j].height
       IN  /\ TextShown(values_array, height, bpc.j)
           /\ texts' = texts \cup {[i |-> bpc.i, j |-> bpc.j,
                                    twice_y |-> TwiceLabelY(values_array, bpc.i, bpc.j, height)]}
    /\ bpc' = AfterBar(values_array, bpc)
    /\ UNCHANGED <<values_array, lbl, drawn, bottom, bars>>
    /\ UNCHANGED <<slugVars, valVars, chartVars, appVars, pieVars, colorVars>>

\* one pass of the inner loop of _add_value_labels in which no label is drawn
NoValueLabel ==
    /\ bpc.at = "labels"
    /\ ~TextShown(values_array, bars[bpc.i][bpc.j].height, bpc.j)
    /\ bpc' = AfterBar(values_array, bpc)
    /\ UNCHANGED <<values_array, lbl, drawn, bottom, bars, texts>>
    /\ UNCHANGED <<slugVars, valVars, chartVars, appVars, pieVars, colorVars>>

NextBars == AddBar \/ AddValueLabel \/ NoValueLabel

SpecBars == InitBars /\ [][NextBars]_vars

(***************************************************************************)
(* StackedBarChart._get_category_colors                                    *)
(***************************************************************************)
MaxColorList == 6

\* CBD_COLORS, constants.py
CBD_COLORS ==
    (<<"c","b","d","_","o","i","l">> :> "#1F3B4D")
    @@ (<<"c","b","d","_","i","s","o","l","a","t","e","s">> :> "#26547C")
    @@ (<<"c","b","d","_","c","o","n","c","e","n","t","r","a","t","e","s">> :> "#5C88B0")
    @@ (<<"o","t","h","e","r","s">> :> "#A3BFD9")

\* CHART_COLORS['primary'], which get_color_palette() returns
get_color_palette == <<"#1F3B4D", "#26547C", "#5C88B0", "#A3BFD9", "#D4E4F1">>

\* str.replace(' ', '_')
ReplaceSpaces(t) == [k \in DOMAIN t |-> IF t[k] = " " THEN "_" ELSE t[k]]

\* category.lower()
category_lower_only(category) == LowerStr(category)
\* category.lower().replace(' ', '_')
category_lower(category) == ReplaceSpaces(LowerStr(category))

\* what one pass of the loop appends, given the colors appended so far
CategoryColor(category, sofar) ==
    IF category_lower(category) \in DOMAIN CBD_COLORS
    THEN CBD_COLORS[category_lower(category)]
    ELSE get_color_palette[(Len(sofar) % Len(get_color_palette)) + 1]

\* category names: one that matches after normalisation, one that matches as
\* written, one with a tab for the space, one that is not in the table
CategoryNames ==
    { <<"C","B","D"," ","O","i","l">>, <<"o","t","h","e","r","s">>,
      <<"c","b","d","\t","o","i","l">>, <<"H","e","m","p">> }

CategoryLists == UNION {[1..n -> CategoryNames] : n \in 0..MaxColorList}

InitColors ==
    /\ categories \in CategoryLists
    /\ colors = <<>>
    /\ IdleStack
    /\ IdleBars
    /\ IdlePie
    /\ text = <<>>
    /\ IdleSlug
    /\ IdleValidate
    /\ IdleChart
    /\ IdleApp

\* one pass of the loop of _get_category_colors, lines 77-84
AppendCategoryColor ==
    /\ Len(colors) < Len(categories)
    /\ colors' = Append(colors, CategoryColor(categories[Len(colors) + 1], colors))
    /\ UNCHANGED categories
    /\ UNCHANGED <<slugVars, valVars, chartVars, appVars, stackVars, pieVars, barVars>>

NextColors == AppendCategoryColor

SpecColors == InitColors /\ [][NextColors]_vars

(***************************************************************************)
(* PieChart.create_chart, "Calculate percentages":                         *)
(*     total = np.sum(values_array)                                        *)
(*     percentages = (values_array / total) * 100                          *)
(* in numpy's float64, IEEE 754 binary64 with round-to-nearest-even.       *)
(* A natural number is the sequence of its digits in base 2^13, the least  *)
(* significant first, without leading zeros (0 is <<>>).  A double is      *)
(* [man, exp]: its 53-bit significand, a natural number, and the exponent  *)
(* of the significand's last bit; its value is man * 2^exp.  Only positive *)
(* normal doubles occur.                                                   *)
(***************************************************************************)
\* the bits of the significand of a float64
SIGNIFICAND_BITS == 53
\* the bits of one digit of a natural number
LIMB_BITS == 13
LIMB == 2 ^ LIMB_BITS
\* the digits DivideInts computes after the point
FRACTION_LIMBS == 6

\* the natural number n
RECURSIVE NatOf(_)
NatOf(n) == IF n = 0 THEN <<>> ELSE <<n % LIMB>> \o NatOf(n \div LIMB)

\* a without its leading zeros
Trim(a) ==
    LET nz == {i \in DOMAIN a : a[i] # 0}
    IN  IF nz = {} THEN <<>>
        ELSE SubSeq(a, 1, CHOOSE i \in nz : \A k \in nz : k <= i)

\* a + b + carry
RECURSIVE AddNat(_, _, _)
AddNat(a, b, carry) ==
    IF a = <<>> /\ b = <<>> THEN NatOf(carry)
    ELSE LET s == (IF a = <<>> THEN 0 ELSE Head(a)) + (IF b = <<>> THEN 0 ELSE Head(b))
                  + carry
         IN  <<s % LIMB>> \o AddNat(IF a = <<>> THEN <<>> ELSE Tail(a),
                                   IF b = <<>> THEN <<>> ELSE Tail(b),
                                   s \div LIMB)

\* a * n + carry, for n < 2^17
RECURSIVE MulSmall(_, _, _)
MulSmall(a, n, carry) ==
    IF a = <<>> THEN NatOf(carry)
    ELSE <<(Head(a) * n + carry) % LIMB>>
         \o MulSmall(Tail(a), n, (Head(a) * n + carry) \div LIMB)

\* the number of bits of a (a is not 0)
BitLen(a) ==
    LIMB_BITS * (Len(a) - 1)
    + (CHOOSE k \in 1..LIMB_BITS : 2 ^ (k - 1) <= a[Len(a)] /\ a[Len(a)] < 2 ^ k)

DigitAt(a, i) == IF i \in DOMAIN a THEN a[i] ELSE 0

\* a \div 2^d
ShiftRight(a, d) ==
    LET q == d \div LIMB_BITS
        r == d % LIMB_BITS
    IN  Trim([i \in 1..(Len(a) - q) |->
                 (DigitAt(a, i + q) \div 2 ^ r)
                 + (DigitAt(a, i + q + 1) % 2 ^ r) * 2 ^ (LIMB_BITS - r)])

\* a * 2^d
ShiftLeft(a, d) ==
    LET q == d \div LIMB_BITS
        r == d % LIMB_BITS
    IN  Trim([i \in 1..(Len(a) + q + 1) |->
                 (DigitAt(a, i - q) % 2 ^ (LIMB_BITS - r)) * 2 ^ r
                 + (DigitAt(a, i - q - 1) \div 2 ^ (LIMB_BITS - r))])

\* bit k of a, bit 0 the least significant
TestBit(a, k) == (DigitAt(a, (k \div LIMB_BITS) + 1) \div 2 ^ (k % LIMB_BITS)) % 2 = 1

\* a % 2^d = 0
LowBitsZero(a, d) ==
    /\ \A i \in 1..(d \div LIMB_BITS) : DigitAt(a, i) = 0
    /\ DigitAt(a, (d \div LIMB_BITS) + 1) % 2 ^ (d % LIMB_BITS) = 0

\* a <= b
LessEqNat(a, b) ==
    \/ Len(a) < Len(b)
    \/ /\ Len(a) = Len(b)
       /\ \/ a = b
          \/ LET k == CHOOSE i \in DOMAIN a :
                         a[i] # b[i] /\ \A m \in DOMAIN a : m > i => a[m] = b[m]
             IN  a[k] < b[k]

\* the double nearest to a * 2^exp, ties to even, a not 0; with `more`, the
\* double nearest to a number strictly between a * 2^exp and (a + 1) * 2^exp
RoundToDouble(a, exp, more) ==
    LET n == BitLen(a) IN
    IF n <= SIGNIFICAND_BITS
    THEN [man |-> ShiftLeft(a, SIGNIFICAND_BITS - n), exp |-> exp - (SIGNIFICAND_BITS - n)]
    ELSE LET d == n - SIGNIFICAND_BITS
             kept == ShiftRight(a, d)
             guard == TestBit(a, d - 1)
             sticky == more \/ ~LowBitsZero(a, d - 1)
             up == guard /\ (sticky \/ TestBit(kept, 0))
             r == IF up THEN AddNat(kept, <<>>, 1) ELSE kept
         IN  IF BitLen(r) > SIGNIFICAND_BITS
             THEN [man |-> ShiftRight(r, 1), exp |-> exp + d + 1]
             ELSE [man |-> r, exp |-> exp + d]

\* the first n digits after the point of r / b (r < b < 2^18), the most
\* significant first, and the remainder left
RECURSIVE QuotientDigits(_, _, _)
QuotientDigits(r, b, n) ==
    IF n = 0 THEN [q |-> <<>>, r |-> r]
    ELSE LET rest == QuotientDigits((r * LIMB) % b, b, n - 1)
         IN  [q |-> <<(r * LIMB) \div b>> \o rest.q, r |-> rest.r]

Reverse(s) == [i \in 1..Len(s) |-> s[Len(s) + 1 - i]]

\* a / b in float64, for positive integers a < 2^13 * b and b < 2^18: the
\* quotient to FRACTION_LIMBS digits after the point, which is more bits than
\* the significand has, and whether anything is left, rounded
DivideInts(a, b) ==
    LET fraction == QuotientDigits(a % b, b, FRACTION_LIMBS)
        quotient == Trim(Reverse(<<a \div b>> \o fraction.q))
    IN  RoundToDouble(quotient, -(LIMB_BITS * FRACTION_LIMBS), fraction.r # 0)

\* x * n in float64, for a double x and an integer 0 < n < 2^17
MultiplyDouble(x, n) == RoundToDouble(MulSmall(x.man, n, 0), x.exp, FALSE)

\* max(values)
MaxSeq(s) == CHOOSE x \in Range(s) : \A y \in Range(s) : y <= x

\* the percentages taken of the largest value instead of the total
pie_percentages_of_max(values) ==
    [i \in DOMAIN values |-> MultiplyDouble(DivideInts(values[i], MaxSeq(values)), 100)]
\* total = np.sum(values_array); percentages = (values_array / total) * 100
pie_percentages(values) ==
    LET total == SumSeq(values)
    IN  [i \in DOMAIN values |-> MultiplyDouble(DivideInts(values[i], total), 100)]

MaxWedges == 3
PieValues == {1, 2, 3, 7}

PieInputs == UNION {[1..n -> PieValues] : n \in 1..MaxWedges}

InitPie ==
    /\ pie_values \in PieInputs
    /\ percentages = <<>>
    /\ ppc = "start"
    /\ IdleStack
    /\ IdleBars
    /\ IdleColors
    /\ text = <<>>
    /\ IdleSlug
    /\ IdleValidate
    /\ IdleChart
    /\ IdleApp

\* PieChart.create_chart, lines 33-35
CalculatePercentages ==
    /\ ppc = "start"
    /\ percentages' = pie_percentages(pie_values)
    /\ ppc' = "computed"
    /\ UNCHANGED pie_values
    /\ UNCHANGED <<slugVars, valVars, chartVars, appVars, stackVars, barVars, colorVars>>

NextPie == CalculatePercentages

SpecPie == InitPie /\ [][NextPie]_vars

\* the five tags of the documentation
FiveTags == {"stacked_bar", "line", "pie", "area", "bar"}

(***************************************************************************)
(* The application specification: invocations of the command, one after    *)
(* the other, on one output directory.  Each runs                          *)
(* ChartGeneratorApp.generate_chart step by step.                          *)
(***************************************************************************)
\* --output-dir, by default 'output'
OUTPUT_DIR == <<<<"o", "u", "t", "p", "u", "t">>>>

Titles == {<<"a">>, <<"A", "!">>, <<"a", " ", "1">>}
LogoPaths == {"missing.png", "corrupt.png", "logo.png", "wide.png"}

GoodData ==
    [labels |-> <<"x">>, values |-> <<<<1>>>>, years |-> <<"x">>, categories |-> <<"x">>]
\* breaks the length rule of every chart type
BadData == [GoodData EXCEPT !["values"] = <<>>]

AppGraphs ==
    {[type |-> t, data |-> d] : t \in FiveTags \cup {"scatter"}, d \in {GoodData, BadData}}
        \cup {[data |-> GoodData]}

\* the configs a configuration file may hold
AppConfigs ==
    {Restrict(c, S \cup {"graph"}) :
        c \in [title : Titles, subtitle : {<<"s">>}, footer : {<<"f">>},
               logo_path : LogoPaths, graph : AppGraphs],
        S \in SUBSET {"title", "subtitle", "footer", "logo_path"}}

\* what the output directory may hold before the first invocation
PreFiles ==
    {JoinPath(OUTPUT_DIR, <<"a">> \o PNG), JoinPath(OUTPUT_DIR, NumberedName(<<"a">>, 1))}
PreContent == [size |-> <<10, 10>>, mode |-> "RGB", by |-> 0]

\* the widths ImageDraw.textbbox may measure for the footer
FooterWidths == {157, 1700}

GeneratingError(msg) == "Error generating chart: " \o msg
ConfigNotFound == "Configuration file not found: config.json"
InvalidJson == "Invalid JSON in configuration file"

Init ==
    /\ inv = 0
    /\ pc = "idle"
    /\ config = <<>>
    /\ canvas = NoCanvas
    /\ graph_image = NoImage
    /\ output_path = <<>>
    /\ \E S \in SUBSET PreFiles :
          /\ fs = [f \in S |-> PreContent]
          /\ dirs \in IF S = {} THEN {{}, {OUTPUT_DIR}} ELSE {{OUTPUT_DIR}}
    /\ written = <<>>
    /\ result = NoResult
    /\ warnings = <<>>
    /\ text = <<>>
    /\ IdleSlug
    /\ IdleValidate
    /\ IdleChart
    /\ IdleStack
    /\ IdlePie
    /\ IdleBars
    /\ IdleColors

\* the chart, its figure and its raster go out of scope
ForgetChart ==
    /\ gcfg' = <<>>
    /\ cw' = 0
    /\ ch' = 0
    /\ chart' = NoChart
    /\ fig' = NoFigure
    /\ raster' = NoImage
    /\ cpc' = "start"

\* run_from_command_line without its `return 1`
FailExitZero(msg) ==
    /\ pc' = "failed"
    /\ result' = [code |-> 0, error |-> "Error: " \o GeneratingError(msg), path |-> <<>>]
\* generate_chart raises RuntimeError; run_from_command_line prints it, returns 1
Fail(msg) ==
    /\ pc' = "failed"
    /\ result' = [code |-> 1, error |-> "Error: " \o GeneratingError(msg), path |-> <<>>]

\* config = load_config(config_path): the file is missing
LoadConfigMissing ==
    /\ pc = "idle"
    /\ inv < MaxInvocations
    /\ inv' = inv + 1
    /\ Fail(ConfigNotFound)
    /\ UNCHANGED <<config, canvas, graph_image, output_path, fs, dirs, written, warnings>>
    /\ UNCHANGED <<slugVars, valVars, chartVars, stackVars, pieVars, barVars, colorVars>>

\* config = load_config(config_path): the file is not JSON
LoadConfigMalformed ==
    /\ pc = "idle"
    /\ inv < MaxInvocations
    /\ inv' = inv + 1
    /\ Fail(InvalidJson)
    /\ UNCHANGED <<config, canvas, graph_image, output_path, fs, dirs, written, warnings>>
    /\ UNCHANGED <<slugVars, valVars, chartVars, stackVars, pieVars, barVars, colorVars>>

\* config = load_config(config_path)
LoadConfig ==
    /\ pc = "idle"
    /\ inv < MaxInvocations
    /\ inv' = inv + 1
    /\ config' \in AppConfigs
    /\ pc' = "loaded"
    /\ UNCHANGED <<canvas, graph_image, output_path, fs, dirs, written, result, warnings>>
    /\ UNCHANGED <<slugVars, valVars, chartVars, stackVars, pieVars, barVars, colorVars>>

\* validate_config(config) returns
ValidateConfig ==
    /\ pc = "loaded"
    /\ validate_config(config) = ""
    /\ pc' = "validated"
    /\ UNCHANGED <<inv, config, canvas, graph_image, output_path, fs, dirs, written, result, warnings>>
    /\ UNCHANGED <<slugVars, valVars, chartVars, stackVars, pieVars, barVars, colorVars>>

\* validate_config(config) raises, the output directory made before it was called
ValidateConfigRaisesAfterMakedirs ==
    /\ pc = "loaded"
    /\ validate_config(config) # ""
    /\ Fail(validate_config(config))
    /\ dirs' = dirs \cup {OUTPUT_DIR}
    /\ UNCHANGED <<inv, config, canvas, graph_image, output_path, fs, written, warnings>>
    /\ UNCHANGED <<slugVars, valVars, chartVars, stackVars, pieVars, barVars, colorVars>>
\* validate_config(config) raises
ValidateConfigRaises ==
    /\ pc = "loaded"
    /\ validate_config(config) # ""
    /\ Fail(validate_config(config))
    /\ UNCHANGED <<inv, config, canvas, graph_image, output_path, fs, dirs, written, warnings>>
    /\ UNCHANGED <<slugVars, valVars, chartVars, stackVars, pieVars, barVars, colorVars>>

\* ensure_output_directory(output_dir)
EnsureOutputDirectory ==
    /\ pc = "validated"
    /\ dirs' = dirs \cup {OUTPUT_DIR}
    /\ pc' = "directory"
    /\ UNCHANGED <<inv, config, canvas, graph_image, output_path, fs, written, result, warnings>>
    /\ UNCHANGED <<slugVars, valVars, chartVars, stackVars, pieVars, barVars, colorVars>>

\* render_dashboard: canvas = create_gradient_background().convert('RGBA')
Background ==
    /\ pc = "directory"
    /\ canvas' = Convert(create_gradient_background, "RGBA")
    /\ pc' = "Background"
    /\ UNCHANGED <<inv, config, graph_image, output_path, fs, dirs, written, result, warnings>>
    /\ UNCHANGED <<slugVars, valVars, chartVars, stackVars, pieVars, barVars, colorVars>>

\* render_dashboard: canvas = self._add_main_card(canvas)
AddMainCard ==
    /\ pc = "Background"
    /\ LET card == create_rounded_rectangle(card_dims.width, card_dims.height, border_radius)
           card_with_shadow == add_shadow(card, shadow_offset, shadow_blur)
       IN  canvas' = Paste(canvas, "card_with_shadow", card_with_shadow,
                           <<card_dims.x - 16, card_dims.y - 16>>)
    /\ pc' = "CardPainted"
    /\ UNCHANGED <<inv, config, graph_image, output_path, fs, dirs, written, result, warnings>>
    /\ UNCHANGED <<slugVars, valVars, chartVars, stackVars, pieVars, barVars, colorVars>>

\* render_dashboard: canvas = self._add_logo(canvas, config)
AddLogo ==
    /\ pc = "CardPainted"
    /\ IF "logo_path" \in DOMAIN config /\ config["logo_path"] # ""
       THEN LET logo == load_and_resize_logo(config["logo_path"]) IN
            /\ canvas' = IF logo # NoImage
                          THEN Paste(canvas, "logo", logo,
                                     <<positions.logo_x, positions.logo_y>>)
                          ELSE canvas
            /\ warnings' = warnings \o logo_warnings(config["logo_path"])
       ELSE UNCHANGED <<canvas, warnings>>
    /\ pc' = "LogoPainted"
    /\ UNCHANGED <<inv, config, graph_image, output_path, fs, dirs, written, result>>
    /\ UNCHANGED <<slugVars, valVars, chartVars, stackVars, pieVars, barVars, colorVars>>

\* render_dashboard: canvas = self._add_title_and_subtitle(canvas, config)
AddTitleAndSubtitle ==
    /\ pc = "LogoPainted"
    /\ LET titled == DrawText(canvas, "title", <<positions.title_x, positions.title_y>>)
       IN  canvas' =
              IF "subtitle" \in DOMAIN config /\ config["subtitle"] # <<>>
              THEN DrawText(titled, "subtitle",
                            <<positions.subtitle_x, positions.subtitle_y>>)
              ELSE titled
    /\ pc' = "TextPainted"
    /\ UNCHANGED <<inv, config, graph_image, output_path, fs, dirs, written, result, warnings>>
    /\ UNCHANGED <<slugVars, valVars, chartVars, stackVars, pieVars, barVars, colorVars>>

\* the graph region of the layout
GraphSize == <<positions.graph_width, positions.graph_height>>

\* render_dashboard: canvas = self._add_chart(canvas, config)
AddChart ==
    /\ pc = "TextPainted"
    /\ gcfg' = config["graph"]
    /\ cw' = positions.graph_width
    /\ ch' = positions.graph_height
    /\ chart' = create_chart(gcfg', cw', ch')
    /\ chart'.err = ""
    /\ \E r \in Renderings(chart') :
          /\ fig' = r.fig
          /\ raster' = r.image
    /\ cpc' = "rendered"
    /\ graph_image' = FitChart(raster', GraphSize)
    /\ LET container_dims ==
               calculate_graph_container_dimensions(positions.graph_width,
                                                    positions.graph_height)
           graph_container ==
               create_rounded_rectangle(container_dims.width, container_dims.height, 12)
           with_container ==
               Paste(canvas, "graph_container", graph_container,
                     <<positions.graph_x + container_dims.offset_x,
                       positions.graph_y + container_dims.offset_y>>)
       IN  canvas' = Paste(with_container, "graph", graph_image',
                           <<positions.graph_x, positions.graph_y>>)
    /\ pc' = "ChartPainted"
    /\ UNCHANGED <<inv, config, output_path, fs, dirs, written, result, warnings>>
    /\ UNCHANGED <<slugVars, valVars, stackVars, pieVars, barVars, colorVars>>

\* a renderer that saves its chart into the output directory before it raises
AddChartRaisesLeavingFile ==
    /\ pc = "TextPainted"
    /\ gcfg' = config["graph"]
    /\ cw' = positions.graph_width
    /\ ch' = positions.graph_height
    /\ chart' = [create_chart(gcfg', cw', ch') EXCEPT
                    !.err = IF @ = "" THEN RenderingFailure ELSE @]
    /\ cpc' = "raised"
    /\ Fail(chart'.err)
    /\ fs' = [f \in DOMAIN fs \cup {JoinPath(OUTPUT_DIR, <<"c", "h", "a", "r", "t">> \o PNG)} |->
                 IF f \in DOMAIN fs THEN fs[f]
                 ELSE [size |-> <<cw', ch'>>, mode |-> "RGBA", by |-> inv]]
    /\ UNCHANGED <<fig, raster>>
    /\ UNCHANGED <<inv, config, canvas, graph_image, output_path, dirs, written, warnings>>
    /\ UNCHANGED <<slugVars, valVars, stackVars, pieVars, barVars, colorVars>>
\* _add_chart: ChartFactory.render_chart raises (the plotting backend failed)
AddChartRaises ==
    /\ pc = "TextPainted"
    /\ gcfg' = config["graph"]
    /\ cw' = positions.graph_width
    /\ ch' = positions.graph_height
    /\ chart' = [create_chart(gcfg', cw', ch') EXCEPT
                    !.err = IF @ = "" THEN RenderingFailure ELSE @]
    /\ cpc' = "raised"
    /\ Fail(chart'.err)
    /\ UNCHANGED <<fig, raster>>
    /\ UNCHANGED <<inv, config, canvas, graph_image, output_path, fs, dirs, written, warnings>>
    /\ UNCHANGED <<slugVars, valVars, stackVars, pieVars, barVars, colorVars>>

\* _add_footer called before _add_chart
AddFooterBeforeChart ==
    /\ pc = "TextPainted"
    /\ \E text_width \in FooterWidths :
          canvas' =
             IF "footer" \in DOMAIN config /\ config["footer"] # <<>>
             THEN DrawText(canvas, "footer",
                           <<(CANVAS_WIDTH - text_width) \div 2, positions.footer_y>>)
             ELSE canvas
    /\ pc' = "FooterPainted"
    /\ graph_image' = NoImage
    /\ ForgetChart
    /\ UNCHANGED <<inv, config, output_path, fs, dirs, written, result, warnings>>
    /\ UNCHANGED <<slugVars, valVars, stackVars, pieVars, barVars, colorVars>>
\* render_dashboard: canvas = self._add_footer(canvas, config)
AddFooter ==
    /\ pc = "ChartPainted"
    /\ \E text_width \in FooterWidths :
          canvas' =
             IF "footer" \in DOMAIN config /\ config["footer"] # <<>>
             THEN DrawText(canvas, "footer",
                           <<(CANVAS_WIDTH - text_width) \div 2, positions.footer_y>>)
             ELSE canvas
    /\ pc' = "FooterPainted"
    \* the locals of _add_chart are gone
    /\ graph_image' = NoImage
    /\ ForgetChart
    /\ UNCHANGED <<inv, config, output_path, fs, dirs, written, result, warnings>>
    /\ UNCHANGED <<slugVars, valVars, stackVars, pieVars, barVars, colorVars>>

\* slug = slugify(config['title']);
\* output_path = generate_unique_filename(output_dir, slug)
NameOutput ==
    /\ pc = "FooterPainted"
    /\ output_path' = generate_unique_filename(DOMAIN fs \cup dirs, OUTPUT_DIR,
                                               slugify(config["title"]))
    /\ pc' = "named"
    /\ UNCHANGED <<inv, config, canvas, graph_image, fs, dirs, written, result, warnings>>
    /\ UNCHANGED <<slugVars, valVars, chartVars, stackVars, pieVars, barVars, colorVars>>

\* canvas = canvas.convert('RGB')
Finalize ==
    /\ pc = "named"
    /\ canvas' = Convert(canvas, "RGB")
    /\ pc' = "Finalized"
    /\ UNCHANGED <<inv, config, graph_image, output_path, fs, dirs, written, result, warnings>>
    /\ UNCHANGED <<slugVars, valVars, chartVars, stackVars, pieVars, barVars, colorVars>>

\* canvas.save(output_path, 'PNG', ...): creates the file or replaces its content
Save ==
    /\ pc = "Finalized"
    /\ fs' = [f \in DOMAIN fs \cup {output_path} |->
                 IF f = output_path
                 THEN [size |-> canvas.size, mode |-> canvas.mode, by |-> inv]
                 ELSE fs[f]]
    /\ written' = Append(written, [title |-> config["title"], path |-> output_path,
                                   before |-> DOMAIN fs])
    /\ pc' = "saved"
    /\ UNCHANGED <<inv, config, canvas, graph_image, output_path, dirs, result, warnings>>
    /\ UNCHANGED <<slugVars, valVars, chartVars, stackVars, pieVars, barVars, colorVars>>

\* return get_relative_path(output_path); run_from_command_line prints it,
\* returns 0
Return ==
    /\ pc = "saved"
    /\ result' = [code |-> 0, error |-> "", path |-> get_relative_path(output_path)]
    /\ pc' = "returned"
    /\ UNCHANGED <<inv, config, canvas, graph_image, output_path, fs, dirs, written, warnings>>
    /\ UNCHANGED <<slugVars, valVars, chartVars, stackVars, pieVars, barVars, colorVars>>

\* the process exits; the next invocation starts afresh on the same filesystem
Exit ==
    /\ pc \in {"returned", "failed"}
    /\ inv < MaxInvocations
    /\ pc' = "idle"
    /\ config' = <<>>
    /\ canvas' = NoCanvas
    /\ graph_image' = NoImage
    /\ output_path' = <<>>
    /\ result' = NoResult
    /\ warnings' = <<>>
    /\ ForgetChart
    /\ UNCHANGED <<inv, fs, dirs, written>>
    /\ UNCHANGED <<slugVars, valVars, stackVars, pieVars, barVars, colorVars>>

Next ==
    \/ LoadConfigMissing
    \/ LoadConfigMalformed
    \/ LoadConfig
    \/ ValidateConfig
    \/ ValidateConfigRaises
    \/ EnsureOutputDirectory
    \/ Background
    \/ AddMainCard
    \/ AddLogo
    \/ AddTitleAndSubtitle
    \/ AddChart
    \/ AddChartRaises
    \/ AddFooter
    \/ NameOutput
    \/ Finalize
    \/ Save
    \/ Return
    \/ Exit

Spec == Init /\ [][Next]_vars

(***************************************************************************)
(* Properties of validate_config.                                          *)
(***************************************************************************)
Min(S) == CHOOSE x \in S : \A y \in S : x <= y

HasGraph(c) == "graph" \in DOMAIN c
HasType(c) == HasGraph(c) /\ "type" \in DOMAIN c["graph"]
HasData(c) == HasGraph(c) /\ "data" \in DOMAIN c["graph"]
TypeSupported(c) == HasType(c) /\ c["graph"]["type"] \in Range(SUPPORTED_CHART_TYPES)

\* the data fields the documented shape of a chart type names
ShapeFields(type) ==
    IF type = "stacked_bar" THEN {"years", "categories", "values"}
    ELSE {"labels", "values"}

\* the config names a supported type and its data breaks that type's length rule
LengthBroken(c) ==
    /\ TypeSupported(c)
    /\ HasData(c)
    /\ LET type == c["graph"]["type"]
           d == c["graph"]["data"]
       IN  IF type = "stacked_bar"
           THEN \/ /\ {"values", "years"} \subseteq DOMAIN d
                   /\ Len(d["values"]) # Len(d["years"])
                \/ /\ {"values", "categories"} \subseteq DOMAIN d
                   /\ \E j \in DOMAIN d["values"] :
                          Len(d["values"][j]) # Len(d["categories"])
           ELSE /\ {"labels", "values"} \subseteq DOMAIN d
                /\ Len(d["labels"]) # Len(d["values"])

\* every required field of the config is there and the type is supported
Complete(c) ==
    /\ "title" \in DOMAIN c
    /\ TypeSupported(c)
    /\ HasData(c)
    /\ ShapeFields(c["graph"]["type"]) \subseteq DOMAIN c["graph"]["data"]

\* the checks of the documented order (1..6) that the config violates
Violations(c) ==
    {k \in 1..6 :
        CASE k = 1 -> "title" \notin DOMAIN c
          [] k = 2 -> ~HasGraph(c)
          [] k = 3 -> ~HasType(c)
          [] k = 4 -> ~HasData(c)
          [] k = 5 -> ~TypeSupported(c)
          [] k = 6 -> /\ TypeSupported(c)
                      /\ \/ ~HasData(c)
                         \/ ~(ShapeFields(c["graph"]["type"])
                                \subseteq DOMAIN c["graph"]["data"])
                         \/ LengthBroken(c)}

\* the check an error message reports
CheckOfError(err) ==
    CASE err = MissingField("title") -> 1
      [] err = MissingField("graph") -> 2
      [] err = MissingField("graph.type") -> 3
      [] err = MissingField("graph.data") -> 4
      [] err \in {UnsupportedType(t) : t \in TypeTags} -> 5
      [] OTHER -> 6

\* C1: validate_config reports the first violation in the order title, graph,
\* graph.type, graph.data, supported type, per-type data checks: it raises exactly
\* when some check is violated, the error raised is the one of the earliest
\* violated check, and no check later than that one is ever run.
C1_FirstViolation ==
    LET viol == Violations(vcfg) IN
    /\ \A j \in DOMAIN vchecks :
          /\ viol # {} => vchecks[j] <= Min(viol)
          /\ j > 1 => vchecks[j - 1] <= vchecks[j]
    /\ v.at = "raised" => /\ viol # {}
                          /\ v.err # ""
                          /\ CheckOfError(v.err) = Min(viol)
                          /\ vchecks[Len(vchecks)] = Min(viol)
    /\ v.at = "ok" => viol = {} /\ v.err = ""

\* a config with a title and a graph that lacks both type and data was rejected
\* for graph.type
C1_Witness ==
    /\ v.at = "raised"
    /\ Violations(vcfg) = {3, 4, 5}
    /\ v.err = MissingField("graph.type")

\* C2: a config whose data breaks the length rule of its (supported) type is
\* rejected, and a config with every required field whose lengths agree is
\* accepted.
C2_LengthRule ==
    ValidateDone(v) =>
        /\ LengthBroken(vcfg) => v.at = "raised"
        /\ (Complete(vcfg) /\ ~LengthBroken(vcfg)) => v.at = "ok"

\* a complete stacked_bar config whose second row alone is short was rejected
C2_Witness ==
    /\ v.at = "raised"
    /\ v.err = StackedRowError
    /\ Complete(vcfg)
    /\ Len(vcfg["graph"]["data"]["values"]) = 2
    /\ Len(vcfg["graph"]["data"]["values"][1]) = Len(vcfg["graph"]["data"]["categories"])

(***************************************************************************)
(* Properties of slugify.                                                  *)
(***************************************************************************)
\* the maximal runs of non-whitespace characters of t, in order
RECURSIVE WordsOf(_)
WordsOf(t) ==
    IF t = <<>> THEN <<>>
    ELSE IF Head(t) \in Whitespace THEN WordsOf(Tail(t))
    ELSE LET ends == {n \in 1..Len(t) :
                        /\ \A j \in 1..n : t[j] \notin Whitespace
                        /\ n = Len(t) \/ t[n + 1] \in Whitespace}
             n == CHOOSE n \in ends : TRUE
         IN  <<SubSeq(t, 1, n)>> \o WordsOf(SubSeq(t, n + 1, Len(t)))

RECURSIVE JoinHyphen(_)
JoinHyphen(ws) ==
    IF ws = <<>> THEN <<>>
    ELSE IF Len(ws) = 1 THEN ws[1]
    ELSE ws[1] \o <<"-">> \o JoinHyphen(Tail(ws))

\* the characters of t that are a letter, a digit, whitespace or a hyphen
KeptChars(t) ==
    SelectSeq(t, LAMBDA c : \/ c \in Range(UpperSeq) \/ c \in Range(LowerSeq)
                            \/ c \in Range(DigitSeq) \/ c \in Whitespace \/ c = "-")

\* C7: slugify is idempotent, slugify(slugify(x)) = slugify(x).
C7_Idempotent == spc = "reslugged" => reslug = slug

\* slugify was applied twice to a text it changed into a slug with a hyphen
C7_Witness ==
    /\ spc = "reslugged"
    /\ slug # text
    /\ \E i \in DOMAIN slug : slug[i] = "-"
    /\ \E i \in DOMAIN text : text[i] \in Whitespace

\* C8: slugify(title) is the title's kept characters (letters, digits, whitespace,
\* hyphens), split at whitespace runs with leading and trailing whitespace dropped,
\* joined by single hyphens and lowercased; it holds only lowercase letters, digits
\* and hyphens; "CBD Market!! 2024" gives "cbd-market-2024".
C8_SlugShape ==
    spc # "start" =>
        /\ slug = [i \in DOMAIN JoinHyphen(WordsOf(KeptChars(text))) |->
                      LowerChar(JoinHyphen(WordsOf(KeptChars(text)))[i])]
        /\ \A i \in DOMAIN slug : slug[i] \in Lower \cup Digit \cup {"-"}
        /\ text = ExampleTitle => slug = ExampleSlug

\* slugify was applied to "CBD Market!! 2024"
C8_Witness == spc = "slugged" /\ text = ExampleTitle

(***************************************************************************)
(* Properties of the chart factory and the renderers.                      *)
(***************************************************************************)
\* the renderer documented for each tag
ExpectedRenderer(t) ==
    CASE t = "stacked_bar" -> "StackedBarChart"
      [] t = "line" -> "LineChart"
      [] t = "pie" -> "PieChart"
      [] t = "area" -> "AreaChart"
      [] t = "bar" -> "BarChart"

\* C3: create_chart gives each of the five tags its own renderer (for a graph config
\* that has data), raises the unsupported-type error for every other tag and for an
\* absent one, and never reaches the 'not implemented' branch: the class table and
\* SUPPORTED_CHART_TYPES hold the same five tags.
C3_Dispatch ==
    /\ DOMAIN chart_classes = Range(SUPPORTED_CHART_TYPES)
    /\ DOMAIN chart_classes = FiveTags
    /\ Len(SUPPORTED_CHART_TYPES) = 5
    /\ \A t1, t2 \in FiveTags : t1 # t2 => chart_classes[t1] # chart_classes[t2]
    /\ cpc # "start" =>
          LET t == IF "type" \in DOMAIN gcfg THEN gcfg["type"] ELSE None IN
          /\ (t \in FiveTags /\ "data" \in DOMAIN gcfg) =>
                /\ chart.cls = ExpectedRenderer(t)
                /\ chart.width = cw /\ chart.height = ch
                /\ cpc = "created" => chart.err = ""
          /\ t \notin FiveTags =>
                /\ cpc = "raised"
                /\ chart.err = FactoryUnsupported(t)
                /\ chart.cls = None
          /\ chart.err # NotImplemented(t)

\* create_chart returned a BarChart for the tag bar
C3_Witness ==
    /\ cpc = "created"
    /\ gcfg["type"] = "bar"
    /\ chart.cls = "BarChart"

\* C6 as stated: render() returns a raster of exactly width x height pixels.
C6_RenderExactSize == cpc = "rendered" => raster.size = <<cw, ch>>

\* C6 as amended: the figure a renderer draws on is created at width x height
\* pixels (width/100 x height/100 in at 100 dpi), and render() returns an RGBA
\* raster of the figure's tight bounding box, padded by 0.1 in on every side, at
\* 300 dpi.
C6_RenderSize ==
    cpc = "rendered" =>
        /\ (fig.size[1] * fig.dpi) \div 100 = cw
        /\ (fig.size[2] * fig.dpi) \div 100 = ch
        /\ raster.size = <<3 * (fig.bbox[1] + 20), 3 * (fig.bbox[2] + 20)>>
        /\ raster.mode = "RGBA"

\* a 1472 x 388 chart whose tight bounding box is the whole figure was rendered
\* to 4476 x 1224 pixels
C6_Witness ==
    /\ cpc = "rendered"
    /\ cw = 1472 /\ ch = 388
    /\ fig.bbox = fig.size
    /\ raster.size = <<4476, 1224>>

(***************************************************************************)
(* Properties of the dashboard composer.                                   *)
(***************************************************************************)
ComposeStates ==
    {"Background", "CardPainted", "LogoPainted", "TextPainted", "ChartPainted",
     "FooterPainted"}

LayerNames(cv) == {cv.layers[i].name : i \in DOMAIN cv.layers}

\* C4: the accumulating raster is 1600 x 900 after every compose step and up to
\* the save, and every file the program wrote is a 1600 x 900 RGB image.
C4_CanvasSize ==
    /\ pc \in ComposeStates => canvas.size = <<1600, 900>> /\ canvas.mode = "RGBA"
    /\ pc = "named" => canvas.size = <<1600, 900>>
    /\ pc \in {"Finalized", "saved", "returned"} =>
          canvas.size = <<1600, 900>> /\ canvas.mode = "RGB"
    /\ pc \in {"saved", "returned"} =>
          /\ output_path \in DOMAIN fs
          /\ fs[output_path].by = inv
    /\ \A f \in DOMAIN fs :
          fs[f].by >= 1 => fs[f].size = <<1600, 900>> /\ fs[f].mode = "RGB"

\* a dashboard with a logo and a footer was saved
C4_Witness ==
    /\ pc = "saved"
    /\ {"card_with_shadow", "logo", "title", "graph", "footer"} \subseteq LayerNames(canvas)
    /\ fs[output_path] = [size |-> <<1600, 900>>, mode |-> "RGB", by |-> inv]

\* C5: the chart raster pasted onto the canvas has exactly the graph region's size,
\* 1472 x 388, for every chart type and whatever size the renderer returned.
C5_ChartFitsRegion ==
    /\ pc = "ChartPainted" =>
          /\ graph_image.size = <<1472, 388>>
          /\ config["graph"]["type"] \in FiveTags
          /\ chart.cls = ExpectedRenderer(config["graph"]["type"])
    /\ pc \in {"ChartPainted", "FooterPainted", "named", "Finalized", "saved", "returned"} =>
          \E i \in DOMAIN canvas.layers : canvas.layers[i].name = "graph"
    /\ \A i \in DOMAIN canvas.layers :
          canvas.layers[i].name = "graph" => canvas.layers[i].size = <<1472, 388>>

\* a pie chart the renderer returned at 4476 x 1224 was pasted at 1472 x 388
C5_Witness ==
    /\ pc = "ChartPainted"
    /\ config["graph"]["type"] = "pie"
    /\ raster.size = <<4476, 1224>>
    /\ graph_image.size = <<1472, 388>>

(***************************************************************************)
(* Properties of the output namer.                                         *)
(***************************************************************************)
\* the k-th path of the sequence dir/base.png, dir/base-1.png, dir/base-2.png, ...
\* (k < 10)
Candidate(dir, base, k) ==
    IF k = 0 THEN Append(dir, base \o <<".", "p", "n", "g">>)
    ELSE Append(dir, base \o <<"-", DigitSeq[k + 1]>> \o <<".", "p", "n", "g">>)

\* C9: generate_unique_filename returns the first path of the sequence slug.png,
\* slug-1.png, slug-2.png, ... that does not exist, and the path it returns does
\* not exist when it returns.
C9_FirstFreePath ==
    pc \in {"named", "Finalized"} =>
        LET base == slugify(config["title"]) IN
        /\ output_path \notin DOMAIN fs
        /\ \E k \in 0..Cardinality(DOMAIN fs) :
              /\ output_path = Candidate(OUTPUT_DIR, base, k)
              /\ \A j \in 0..(k - 1) : Candidate(OUTPUT_DIR, base, j) \in DOMAIN fs

\* with a.png and a-1.png taken, a-2.png was returned
C9_Witness ==
    /\ pc = "named"
    /\ output_path = Candidate(OUTPUT_DIR, <<"a">>, 2)
    /\ Candidate(OUTPUT_DIR, <<"a">>, 1) \in DOMAIN fs

\* no step removes a file or changes the content of one
NoFileChanged == \A f \in DOMAIN fs : f \in DOMAIN fs' /\ fs'[f] = fs[f]

\* two successive files saved under one title, neither slug.png nor slug-1.png
\* existing before the first: they are slug.png and slug-1.png
SameTitleTwice ==
    \A i \in 1..(Len(written) - 1) :
        LET base == slugify(written[i].title) IN
        (/\ written[i + 1].title = written[i].title
         /\ Candidate(OUTPUT_DIR, base, 0) \notin written[i].before
         /\ Candidate(OUTPUT_DIR, base, 1) \notin written[i].before)
        => /\ written[i].path = Candidate(OUTPUT_DIR, base, 0)
           /\ written[i + 1].path = Candidate(OUTPUT_DIR, base, 1)

\* C10: over any sequence of invocations on one output directory no file that
\* exists is overwritten or removed (every file keeps its content at every step,
\* and a file is only ever saved at a path that did not exist), and two invocations
\* with the same title on a directory holding neither name produce slug.png and
\* then slug-1.png.
C10_NeverOverwrites ==
    /\ [][NoFileChanged]_vars
    /\ [](\A i \in DOMAIN written : written[i].path \notin written[i].before)
    /\ []SameTitleTwice

\* the title "a" was saved twice, as a.png and then as a-1.png
C10_Witness ==
    /\ pc = "saved"
    /\ Len(written) = 2
    /\ written[1].title = <<"a">> /\ written[2].title = <<"a">>
    /\ written[1].path = Candidate(OUTPUT_DIR, <<"a">>, 0)
    /\ written[2].path = Candidate(OUTPUT_DIR, <<"a">>, 1)
    /\ fs[written[1].path].by = 1

(***************************************************************************)
(* Properties of the compose pipeline's order.                             *)
(***************************************************************************)
\* the steps of one render, in the order generate_chart runs them
StepOrder ==
    <<"Background", "CardPainted", "LogoPainted", "TextPainted", "ChartPainted",
      "FooterPainted", "named", "Finalized", "saved">>

StepIndex(s) == CHOOSE i \in DOMAIN StepOrder : StepOrder[i] = s

\* what a render paints, in the order it may appear on the canvas
PaintOrder ==
    <<"gradient", "card_with_shadow", "card_with_shadow.shadow", "card_with_shadow.image",
      "logo", "title", "subtitle", "graph_container", "graph", "footer">>

PaintIndex(n) == CHOOSE i \in DOMAIN PaintOrder : PaintOrder[i] = n

\* the names of the layers of an image, in the order they were painted
NamesOf(cv) == [i \in DOMAIN cv.layers |-> cv.layers[i].name]

\* every layer is one of PaintOrder, painted once and after those before it
PaintedInOrder(cv) ==
    /\ \A i \in DOMAIN cv.layers : cv.layers[i].name \in Range(PaintOrder)
    /\ \A i, j \in DOMAIN cv.layers :
          i < j => PaintIndex(cv.layers[i].name) < PaintIndex(cv.layers[j].name)

\* what must be on the canvas once a step has completed (logo, subtitle and
\* footer are optional)
PaintedBy(s) ==
    CASE s = "Background" -> {"gradient"}
      [] s = "CardPainted" -> {"gradient", "card_with_shadow"}
      [] s = "LogoPainted" -> {"gradient", "card_with_shadow"}
      [] s = "TextPainted" -> {"gradient", "card_with_shadow", "title"}
      [] OTHER -> {"gradient", "card_with_shadow", "title", "graph_container", "graph"}

\* what may not be on the canvas yet when a step has completed
NotPaintedBy(s) ==
    CASE s = "Background" -> Range(PaintOrder) \ {"gradient"}
      [] s = "CardPainted" -> {"logo", "title", "subtitle", "graph_container", "graph", "footer"}
      [] s = "LogoPainted" -> {"title", "subtitle", "graph_container", "graph", "footer"}
      [] s = "TextPainted" -> {"graph_container", "graph", "footer"}
      [] s = "ChartPainted" -> {"footer"}
      [] OTHER -> {}

\* a step of the render moves to the next state of StepOrder, or the render fails
InStepOrder ==
    /\ (pc' # pc /\ pc' \in Range(StepOrder)) =>
          IF pc' = "Background" THEN pc = "directory"
          ELSE pc \in Range(StepOrder) /\ StepIndex(pc') = StepIndex(pc) + 1
    /\ (pc' # pc /\ pc \in Range(StepOrder)) =>
          \/ pc' = "failed"
          \/ pc = "saved" /\ pc' = "returned"
          \/ pc # "saved" /\ pc' = StepOrder[StepIndex(pc) + 1]
    \* the conversion to RGB is the step from "named" to "Finalized"; the file is
    \* written by the step after it
    /\ canvas'.mode # canvas.mode =>
          \/ pc' = "Background"
          \/ pc = "named" /\ pc' = "Finalized" /\ canvas'.mode = "RGB"
          \/ pc' = "idle"
    /\ fs' # fs => pc = "Finalized" /\ pc' = "saved" /\ canvas.mode = "RGB"

\* C11: every render passes through Background, CardPainted, LogoPainted,
\* TextPainted, ChartPainted, FooterPainted and Finalized in this order, each step
\* run once and after its predecessor; the logo and the footer may only be missing
\* from the canvas, never painted out of place; the canvas becomes RGB after the
\* footer step and before the file is written.
C11_ComposeOrder ==
    /\ [][InStepOrder]_vars
    /\ [](pc \in Range(StepOrder) \cup {"returned"} =>
             /\ PaintedInOrder(canvas)
             /\ LET s == IF pc = "returned" THEN "saved" ELSE pc IN
                /\ PaintedBy(s) \subseteq Range(NamesOf(canvas))
                /\ NotPaintedBy(s) \cap Range(NamesOf(canvas)) = {}
             /\ (canvas.mode = "RGB") = (pc \in {"Finalized", "saved", "returned"}))

\* a render with a logo, a subtitle and a footer reached Finalized with all of
\* them painted in order
C11_Witness ==
    /\ pc = "Finalized"
    /\ NamesOf(canvas) = PaintOrder
    /\ canvas.mode = "RGB"

(***************************************************************************)
(* Properties of the logo step and of the command's outcome.               *)
(***************************************************************************)
\* the steps after the logo step
AfterLogo ==
    {"LogoPainted", "TextPainted", "ChartPainted", "FooterPainted", "named", "Finalized",
     "saved", "returned"}

LogoConfigured == "logo_path" \in DOMAIN config /\ config["logo_path"] # ""

LogoUnusable ==
    /\ LogoConfigured
    /\ \/ ~LogoFile(config["logo_path"]).exists
       \/ ~LogoFile(config["logo_path"]).image

\* C12: the logo step never aborts a render.  With no logo path configured nothing
\* is painted and nothing is printed; with a logo file that is missing or cannot be
\* decoded a warning is printed and nothing is painted; in both cases the render
\* goes on.
C12_LogoNeverAborts ==
    pc \in AfterLogo =>
        /\ ~LogoConfigured => "logo" \notin Range(NamesOf(canvas)) /\ warnings = <<>>
        /\ LogoUnusable =>
              /\ "logo" \notin Range(NamesOf(canvas))
              /\ warnings = <<CouldNotLoadLogo(config["logo_path"])>>

\* the messages generate_chart may fail with, given what it has loaded
FailureMessages ==
    IF config = <<>> THEN {ConfigNotFound, InvalidJson}
    ELSE IF validate_config(config) # "" THEN {validate_config(config)}
    ELSE {RenderingFailure}

\* C13: an invocation that succeeds prints the path, relative to the working
\* directory, of the file it wrote, a file that exists, and returns 0; one that
\* fails at any stage prints "Error: <message>" and returns 1; nothing is printed
\* or returned before.
C13_ExitStatus ==
    /\ pc = "returned" =>
          /\ result.code = 0
          /\ result.error = ""
          /\ result.path = get_relative_path(output_path)
          /\ result.path \in DOMAIN fs
          /\ fs[result.path].by = inv
    /\ pc = "failed" =>
          /\ result.code = 1
          /\ result.path = <<>>
          /\ \E m \in FailureMessages :
                result.error = "Error: " \o ("Error generating chart: " \o m)
    /\ pc \notin {"returned", "failed"} => result = NoResult

\* after a first invocation that wrote a file, a second one failed in the renderer
C13_Witness ==
    /\ pc = "failed"
    /\ inv = 2
    /\ Len(written) = 1
    /\ result = [code |-> 1, error |-> "Error: Error generating chart: rendering error",
                 path |-> <<>>]

\* C14: an invocation that fails (config missing or malformed, validation,
\* unsupported type, rendering) stops there, and has created or modified no file:
\* the failing step leaves the files as they are and no file is this invocation's.
C14_NoPartialOutput ==
    /\ [][pc' = "failed" => fs' = fs]_vars
    /\ [][pc = "failed" /\ pc' # pc => pc' = "idle" /\ fs' = fs]_vars
    /\ [](pc = "failed" => \A f \in DOMAIN fs : fs[f].by # inv)

\* the renderer failed after the output directory was created, which is empty
C14_Witness ==
    /\ pc = "failed"
    /\ result.error = "Error: Error generating chart: rendering error"
    /\ OUTPUT_DIR \in dirs
    /\ DOMAIN fs = {}

(***************************************************************************)
(* Properties of the layout.                                               *)
(***************************************************************************)
LayerAt(cv, n) == {cv.layers[i] : i \in {j \in DOMAIN cv.layers : cv.layers[j].name = n}}

\* C15: the layout positions are the same exact pixel values in every render,
\* whatever the config: the values the layout functions return, and the places the
\* layers are painted at.
C15_ExactLayout ==
    /\ positions = [title_x |-> 64, title_y |-> 64, subtitle_x |-> 64, subtitle_y |-> 128,
                    logo_x |-> 1336, logo_y |-> 64, graph_x |-> 64, graph_y |-> 256,
                    graph_width |-> 1472, graph_height |-> 388, footer_y |-> 804]
    /\ card_dims = [width |-> 1536, height |-> 836, margin |-> 32, x |-> 32, y |-> 32]
    /\ calculate_graph_container_dimensions(positions.graph_width, positions.graph_height)
          = [width |-> 1504, height |-> 420, padding |-> 16,
             offset_x |-> -16, offset_y |-> -16]
    /\ \A l \in LayerAt(canvas, "title") : l.pos = <<64, 64>>
    /\ \A l \in LayerAt(canvas, "subtitle") : l.pos = <<64, 128>>
    /\ \A l \in LayerAt(canvas, "logo") : l.pos = <<1336, 64>>
    /\ \A l \in LayerAt(canvas, "graph") : l.pos = <<64, 256>> /\ l.size = <<1472, 388>>
    /\ \A l \in LayerAt(canvas, "graph_container") :
          l.pos = <<64 - 16, 256 - 16>> /\ l.size = <<1504, 420>>
    /\ \A l \in LayerAt(canvas, "footer") : l.pos[2] = 804
    /\ \A l \in LayerAt(canvas, "card_with_shadow.image") :
          l.pos = <<32, 32>> /\ l.size = <<1536, 836>>

\* the second render of a behaviour painted the logo, both texts, the chart and
\* the footer
C15_Witness ==
    /\ inv = 2
    /\ pc = "FooterPainted"
    /\ NamesOf(canvas) = PaintOrder
    /\ Len(written) = 1

(***************************************************************************)
(* Properties of the logo's size and of the card and its shadow.           *)
(***************************************************************************)
\* C17: the logo painted on the dashboard fits its box at (1336, 64): its height
\* is at most 135 px and its width at most the 200 px the layout reserves,
\* whatever the size of the source image.
C17_LogoFitsBox ==
    \A l \in LayerAt(canvas, "logo") :
        /\ l.pos = <<1336, 64>>
        /\ l.size[2] <= 135
        /\ l.size[1] <= 200

AfterCard == AfterLogo \cup {"CardPainted"}

\* C19: the card step pastes the shadow first and the card surface on top of it,
\* and on the canvas the card surface is the 1536 x 836 region at (32, 32), which
\* leaves 32 px on each of the four sides of the 1600 x 900 canvas.
C19_CardRegion ==
    pc \in AfterCard =>
        /\ \E i, j \in DOMAIN canvas.layers :
              /\ i < j
              /\ canvas.layers[i].name = "card_with_shadow.shadow"
              /\ canvas.layers[j].name = "card_with_shadow.image"
        /\ \A i, j \in DOMAIN canvas.layers :
              (/\ canvas.layers[i].name = "card_with_shadow.shadow"
               /\ canvas.layers[j].name = "card_with_shadow.image") => i < j
        /\ \A c \in LayerAt(canvas, "card_with_shadow.image") :
              /\ c.pos = <<32, 32>>
              /\ c.size = <<1536, 836>>
              /\ canvas.size[1] - (c.pos[1] + c.size[1]) = 32
              /\ canvas.size[2] - (c.pos[2] + c.size[2]) = 32
        \* nothing of the card and its shadow is clipped by the canvas
        /\ \A w \in LayerAt(canvas, "card_with_shadow") :
              /\ w.pos[1] >= 0 /\ w.pos[1] + w.size[1] <= canvas.size[1]
              /\ w.pos[2] >= 0 /\ w.pos[2] + w.size[2] <= canvas.size[2]

\* the card has just been painted on the gradient
C19_Witness ==
    /\ pc = "CardPainted"
    /\ NamesOf(canvas) =
          <<"gradient", "card_with_shadow", "card_with_shadow.shadow",
            "card_with_shadow.image">>

\* C20: the rectangle add_shadow draws for the shadow, before the blur, is the
\* card's rectangle moved by the shadow offset (0, 4).
C20_ShadowDisplaced ==
    \A s \in LayerAt(canvas, "card_with_shadow.shadow") :
        \A c \in LayerAt(canvas, "card_with_shadow.image") :
            /\ s.pos = <<c.pos[1] + shadow_offset[1], c.pos[2] + shadow_offset[2]>>
            /\ s.size = c.size

(***************************************************************************)
(* Properties of the stacked-bar value labels.                             *)
(***************************************************************************)
\* the bars _add_value_labels has been through
Processed(i, j) == i < lbl.i \/ (i = lbl.i /\ j < lbl.j)

Bars(values) ==
    {<<i, j>> : i \in 1..NumCategories(values), j \in 1..NumPeriods(values)}

\* C16 as stated: for every period and category, the value label is drawn if and
\* only if the segment's height is more than 10% of the period's total.
C16_TenPercentRule ==
    \A b \in Bars(values_array) :
        Processed(b[1], b[2]) =>
            (b \in drawn <=> 10 * values_array[b[2]][b[1]] > SumSeq(values_array[b[2]]))

\* C16, amended: in a period none of whose values is negative, a segment is
\* labelled if and only if its height is more than 10% of the period's total; a
\* segment whose height is not positive is never labelled; no label is drawn
\* for a bar the loops have not reached.
C16_LabelRule ==
    /\ drawn \subseteq {b \in Bars(values_array) : Processed(b[1], b[2])}
    /\ \A b \in Bars(values_array) :
          Processed(b[1], b[2]) =>
              LET height == values_array[b[2]][b[1]]
                  row == values_array[b[2]]
              IN  /\ (\A k \in DOMAIN row : row[k] >= 0) =>
                         (b \in drawn <=> 10 * height > SumSeq(row))
                  /\ height <= 0 => b \notin drawn

\* both loops are over for a period with values 1 and 9 (exactly 10% and 90%) and
\* a period with values 1 and 1: all but the 10% segment are labelled
C16_Witness ==
    /\ values_array = <<<<1, 9>>, <<1, 1>>>>
    /\ lbl.i = 3
    /\ drawn = {<<2, 1>>, <<1, 2>>, <<2, 2>>}

(***************************************************************************)
(* Properties of the pie percentages.  Sums of doubles are taken exactly:  *)
(* every double is brought to the smallest exponent of the list.           *)
(***************************************************************************)
MinExp(ps) == CHOOSE e \in {ps[i].exp : i \in DOMAIN ps} : \A i \in DOMAIN ps : e <= ps[i].exp

\* the sum of the doubles ps, in units of 2^e
RECURSIVE SumAt(_, _)
SumAt(ps, e) ==
    IF ps = <<>> THEN <<>>
    ELSE AddNat(ShiftLeft(Head(ps).man, Head(ps).exp - e), SumAt(Tail(ps), e), 0)

\* 100, in units of 2^e (e <= 0)
HundredAt(e) == ShiftLeft(NatOf(100), -e)

Segments == {<<i, j>> : i \in 1..Len(bars), j \in 1..NumPeriods(values_array)}

AllStacked == Len(bars) = NumCategories(values_array)

ColorsReturned == Len(colors) = Len(categories)

\* the name as the table is asked for it, written out character by character
TableKey(name) ==
    [k \in 1..Len(name) |->
        IF name[k] = " " THEN "_"
        ELSE IF name[k] \in Upper THEN LowerChar(name[k]) ELSE name[k]]

\* position is 0-based, as the indices of a Python list
ExpectedColor(names, position) ==
    LET key == TableKey(names[position + 1])
    IN  IF \E t \in DOMAIN CBD_COLORS : t = key THEN CBD_COLORS[key]
        ELSE get_color_palette[(position % 5) + 1]

C22_ColorPerCategory ==
    /\ Len(colors) <= Len(categories)
    /\ \A k \in 1..Len(colors) : colors[k] = ExpectedColor(categories, k - 1)

\* a returned list in which a normalised name took the table's color and a
\* sixth, unmatched category wrapped round to the palette's first color
C22_Witness ==
    /\ ColorsReturned
    /\ Len(categories) >= 6
    /\ categories[6] = <<"H","e","m","p">> /\ colors[6] = "#1F3B4D"
    /\ categories[2] = <<"C","B","D"," ","O","i","l">> /\ colors[2] = "#1F3B4D"
    /\ categories[5] = <<"c","b","d","\t","o","i","l">> /\ colors[5] = "#D4E4F1"

(***************************************************************************)
(* C25: for at most five pairwise distinct category names, the colors      *)
(* _get_category_colors assigns are pairwise distinct.                     *)
(***************************************************************************)
PairwiseDistinct(s) == \A a, b \in DOMAIN s : a # b => s[a] # s[b]

C25_DistinctColors ==
    (ColorsReturned /\ Len(categories) <= 5 /\ PairwiseDistinct(categories))
        => PairwiseDistinct(colors)

(***************************************************************************)
(* C23: in generate_chart the output directory is created, the dashboard   *)
(* is rendered and a file is written only after load_config and            *)
(* validate_config have both succeeded: an invocation whose config fails   *)
(* to load or fails validation changes nothing of the filesystem, and      *)
(* writing the file is the last effect of a successful invocation.         *)
(***************************************************************************)
\* generate_chart has not yet got past validate_config
BeforeValidated == pc \in {"idle", "loaded"}

\* the steps of generate_chart from ensure_output_directory to the save
AfterValidated ==
    pc \in {"validated", "directory", "Background", "CardPainted", "LogoPainted",
            "TextPainted", "ChartPainted", "FooterPainted", "named", "Finalized"}

FilesystemUnchanged == fs' = fs /\ dirs' = dirs

C23_EffectsAfterValidation ==
    /\ [][(BeforeValidated) => (FilesystemUnchanged /\ canvas' = canvas)]_vars
    /\ [][(dirs' # dirs) => (pc = "validated")]_vars
    /\ [][(canvas' # canvas /\ canvas' # NoCanvas) => (AfterValidated /\ OUTPUT_DIR \in dirs)]_vars
    /\ [][(fs' # fs) => (pc = "Finalized" /\ pc' = "saved" /\ canvas # NoCanvas)]_vars
    /\ [][(pc \in {"saved", "returned"}) => (FilesystemUnchanged)]_vars
    /\ [](pc \in {"saved", "returned"} =>
             /\ output_path \in DOMAIN fs
             /\ fs[output_path].by = inv
             /\ validate_config(config) = "")

\* the second invocation failed validation on a filesystem that had no output
\* directory at the start and that the first invocation, failing to load its
\* config, left without one
C23_Witness ==
    /\ inv = 2
    /\ pc = "failed"
    /\ config # <<>>
    /\ validate_config(config) # ""
    /\ dirs = {}
    /\ fs = <<>>

(***************************************************************************)
(* C24: the painted regions nest and do not collide: the shadowed card,    *)
(* the chart container and the chart raster lie within the 1600 x 900      *)
(* canvas; the chart raster lies within its container and the container    *)
(* within the card surface; the title origin, the subtitle origin and the  *)
(* bottom edge of a logo of height at most 135 lie above the container's   *)
(* top edge (y = 240); the footer's y (804) lies below the container's     *)
(* bottom edge and inside the card.                                        *)
(***************************************************************************)
Left(l) == l.pos[1]
Top(l) == l.pos[2]
\* one past the last column and the last row
Right(l) == l.pos[1] + l.size[1]
Bottom(l) == l.pos[2] + l.size[2]

Within(a, b) ==
    /\ Left(b) <= Left(a) /\ Right(a) <= Right(b)
    /\ Top(b) <= Top(a) /\ Bottom(a) <= Bottom(b)

WholeCanvas(cv) == [name |-> "canvas", pos |-> <<0, 0>>, size |-> cv.size]

C24_RegionsNest ==
    canvas # NoCanvas =>
        /\ canvas.size = <<1600, 900>>
        /\ \A n \in {"card_with_shadow", "graph_container", "graph"} :
              \A l \in LayerAt(canvas, n) : Within(l, WholeCanvas(canvas))
        /\ \A k \in LayerAt(canvas, "graph_container") :
              /\ Top(k) = 240
              /\ \A c \in LayerAt(canvas, "card_with_shadow.image") : Within(k, c)
              /\ \A g \in LayerAt(canvas, "graph") : Within(g, k)
              /\ \A t \in LayerAt(canvas, "title") \cup LayerAt(canvas, "subtitle") :
                    Top(t) < Top(k)
              /\ \A l \in LayerAt(canvas, "logo") : l.size[2] <= 135 => Bottom(l) < Top(k)
              /\ \A f \in LayerAt(canvas, "footer") :
                    /\ Top(f) = 804
                    /\ Top(f) > Bottom(k)
                    /\ \A c \in LayerAt(canvas, "card_with_shadow.image") :
                          Top(c) <= Top(f) /\ Top(f) < Bottom(c)

\* a finished dashboard with a logo of the full 135 rows, a subtitle, the chart
\* in its container and a footer
C24_Witness ==
    /\ pc = "Finalized"
    /\ \E l \in LayerAt(canvas, "logo") : l.size[2] = 135
    /\ LayerAt(canvas, "subtitle") # {}
    /\ LayerAt(canvas, "graph") # {}
    /\ LayerAt(canvas, "graph_container") # {}
    /\ LayerAt(canvas, "footer") # {}

====
